---- MODULE Spec2Model ----
(***************************************************************************)
(* Chore recurrence / rotation of kinetic-app-v2: the client-side          *)
(* ChoresProvider (src/src/contexts/ChoresContext.tsx), the chore form     *)
(* (src/src/components/chore/ChoresForm.tsx), the chores list              *)
(* (components/chore/ChoresList) and the chores table with its             *)
(* BEFORE UPDATE trigger (src/supabase/schema.sql).                        *)
(*                                                                         *)
(* Time is counted in ticks, TicksPerDay to a day, since 2024-01-01T00:00Z *)
(* (a Monday).  A timestamp is an instant (ticks, UTC); NullTime is NULL.  *)
(***************************************************************************)
EXTENDS Integers, Sequences, FiniteSets, TLC

\* ------------------------------------------------------------------ bounds
MaxOps == 4             \* user, clock and failure events in one behaviour
MaxChores == 1          \* chore rows ever inserted
MaxCycles == 2          \* full cycles a rotation is advanced through on its own
CalcDays == 366         \* days, from 2024-01-01, a due date is calculated from
MaxTodos == 2           \* rows ever in the todos table
TicksPerDay == 2        \* resolution of the clock: instants told apart in a day
StartDay == 30          \* the behaviour starts on Wed 2024-01-31T00:00Z

\* --------------------------------------------------------------- constants

Null == "null"          \* null of a text / uuid column
NullInt == -1           \* null of current_assignee_index
NullTime == -1          \* null of a timestamp column
NullMembers == <<Null>> \* null of rotation_members (distinct from every list of members)

Sessions == {1, 2}
Members == {"A", "B", "C"}
Frequencies == {"daily", "weekly", "monthly"}
ChoreIds == 1..MaxChores

\* Offset of a session's browser time zone from UTC, in ticks.  The store's
\* session time zone is UTC.
TzOffset(s) == IF s = 1 THEN 0 ELSE 1

\* ------------------------------------------------------ calendar arithmetic
\* days since 1970-01-01 of the civil date y-m-d (proleptic Gregorian)
DaysFromCivil(y, m, d) ==
  LET yy  == IF m <= 2 THEN y - 1 ELSE y
      era == yy \div 400
      yoe == yy - era * 400
      mp  == (m + 9) % 12
      doy == (153 * mp + 2) \div 5 + d - 1
      doe == yoe * 365 + yoe \div 4 - yoe \div 100 + doy
  IN  era * 146097 + doe - 719468

\* civil date of a day number counted since 1970-01-01
CivilFromDays(z0) ==
  LET z   == z0 + 719468
      era == z \div 146097
      doe == z - era * 146097
      yoe == (doe - doe \div 1460 + doe \div 36524 - doe \div 146096) \div 365
      doy == doe - (365 * yoe + yoe \div 4 - yoe \div 100)
      mp  == (5 * doy + 2) \div 153
      d   == doy - (153 * mp + 2) \div 5 + 1
      m   == IF mp < 10 THEN mp + 3 ELSE mp - 9
      y   == yoe + era * 400 + (IF m <= 2 THEN 1 ELSE 0)
  IN  [y |-> y, m |-> m, d |-> d]

IsLeap(y) == (y % 4 = 0 /\ y % 100 # 0) \/ y % 400 = 0

DaysInMonth(y, m) ==
  IF m = 2 THEN (IF IsLeap(y) THEN 29 ELSE 28)
  ELSE IF m \in {4, 6, 9, 11} THEN 30 ELSE 31

\* 2024-01-01 counted in days since 1970-01-01
EpochDays == DaysFromCivil(2024, 1, 1)

DayOf(t) == t \div TicksPerDay          \* day number (since 2024-01-01) of a tick
TimeOfDay(t) == t % TicksPerDay
CivilOf(t) == CivilFromDays(DayOf(t) + EpochDays)
MkTime(y, m, d, tod) == (DaysFromCivil(y, m, d) - EpochDays) * TicksPerDay + tod

\* date-fns addDays(date, n): setDate(getDate() + n), same wall-clock time
addDays(t, n) == t + n * TicksPerDay

\* Date.prototype.setMonth(getMonth() + 1): the day of month is kept and a day
\* past the end of the target month overflows into the month after it
setMonthPlus1(t) ==
  LET c  == CivilOf(t)
      y2 == IF c.m = 12 THEN c.y + 1 ELSE c.y
      m2 == IF c.m = 12 THEN 1 ELSE c.m + 1
  IN  MkTime(y2, m2, 1, TimeOfDay(t)) + (c.d - 1) * TicksPerDay

\* PostgreSQL timestamptz + INTERVAL '1 month': the day of month is clamped
\* to the last day of the target month
pgPlus1Month(t) ==
  LET c  == CivilOf(t)
      y2 == IF c.m = 12 THEN c.y + 1 ELSE c.y
      m2 == IF c.m = 12 THEN 1 ELSE c.m + 1
      d2 == IF c.d > DaysInMonth(y2, m2) THEN DaysInMonth(y2, m2) ELSE c.d
  IN  MkTime(y2, m2, d2, TimeOfDay(t))


\* --------------------------------------------------------------- chore rows
\* columns of the chores table that the chore logic reads or writes
NoRow == [id |-> 0]

IsRow(r) == r.id # 0

\* JS array index (0-based) into a TLA+ sequence; undefined is read as null
At(members, i) == IF i >= 0 /\ i < Len(members) THEN members[i + 1] ELSE Null

\* calculateNextDueDate(frequency, lastCompleted) evaluated in session s at
\* instant nowT.  lastCompleted = NullTime stands for the omitted argument.
\* The result is the zone-less string format(nextDue, "yyyy-MM-dd'T'HH:mm:ss"),
\* i.e. the browser's wall-clock reading; the store reads a zone-less value in
\* its own (UTC) time zone, so the wall-clock reading is the instant stored.
calculateNextDueDate(s, frequency, lastCompleted, nowT) ==
  LET startDate == IF lastCompleted # NullTime THEN lastCompleted ELSE nowT
      wall      == startDate + TzOffset(s)
  IN  CASE frequency = "daily"   -> addDays(wall, 1)
        [] frequency = "weekly"  -> addDays(wall, 7)
        [] frequency = "monthly" -> setMonthPlus1(wall)
        [] OTHER                 -> addDays(wall, 1)

\* getNextAssignee that forgets the assignee of a chore without rotation
getNextAssignee_ForgetsAssignee(chore) ==
  IF ~chore.rotation \/ chore.rotation_members = NullMembers
     \/ Len(chore.rotation_members) = 0
  THEN Null
  ELSE At(chore.rotation_members,
          IF chore.current_assignee_index # NullInt
          THEN (chore.current_assignee_index + 1) % Len(chore.rotation_members)
          ELSE 0)

\* getNextAssignee(chore)
getNextAssignee(chore) ==
  IF ~chore.rotation \/ chore.rotation_members = NullMembers
     \/ Len(chore.rotation_members) = 0
  THEN chore.assigned_to
  ELSE LET nextIndex == IF chore.current_assignee_index # NullInt
                        THEN (chore.current_assignee_index + 1) % Len(chore.rotation_members)
                        ELSE 0
       IN  At(chore.rotation_members, nextIndex)

\* nextAssigneeIndex without the wrap at the end of the list
nextAssigneeIndex_NoWrap(chore) ==
  IF chore.rotation /\ chore.rotation_members # NullMembers
  THEN (IF chore.current_assignee_index # NullInt
        THEN chore.current_assignee_index + 1
        ELSE 0)
  ELSE chore.current_assignee_index

\* nextAssigneeIndex as computed inside completeChore
nextAssigneeIndex(chore) ==
  IF chore.rotation /\ chore.rotation_members # NullMembers
  THEN (IF chore.current_assignee_index # NullInt
        THEN (chore.current_assignee_index + 1) % Len(chore.rotation_members)
        ELSE 0)
  ELSE chore.current_assignee_index

\* the updates object completeChore hands to updateChore
completionUpdates(s, chore, nowT) ==
  [last_completed         |-> nowT,
   next_due               |-> calculateNextDueDate(s, chore.frequency, nowT, nowT),
   assigned_to            |-> getNextAssignee(chore),
   current_assignee_index |-> nextAssigneeIndex(chore)]

\* choreData that passes the rotation fields on as they stand in the form
choreData_KeepsRotationFields(frequency, rotation, assignedTo, rotationMembers) ==
  [frequency              |-> frequency,
   rotation               |-> rotation,
   assigned_to            |-> IF rotation THEN Null ELSE assignedTo,
   rotation_members       |-> rotationMembers,
   current_assignee_index |-> 0]

\* choreData built by the chore form's handleSubmit
choreData(frequency, rotation, assignedTo, rotationMembers) ==
  [frequency              |-> frequency,
   rotation               |-> rotation,
   assigned_to            |-> IF rotation THEN Null ELSE assignedTo,
   rotation_members       |-> IF rotation THEN rotationMembers ELSE NullMembers,
   current_assignee_index |-> IF rotation THEN 0 ELSE NullInt]

\* validateForm without its test of the rotation members
validateForm_AnyRotation(titleOk, rotation, rotationMembers) == titleOk

\* validateForm of the chore form
validateForm(titleOk, rotation, rotationMembers) ==
  /\ titleOk
  /\ ~(rotation /\ Len(rotationMembers) < 2)

\* ------------------------------------------------------------------- store
\* update_next_due, first part: NEW.next_due from NEW.last_completed
WithNextDue(new) ==
  [new EXCEPT !.next_due =
     CASE new.frequency = "daily"   -> new.last_completed + 1 * TicksPerDay
       [] new.frequency = "weekly"  -> new.last_completed + 7 * TicksPerDay
       [] new.frequency = "monthly" -> pgPlus1Month(new.last_completed)]

\* the index update_next_due moves NEW.current_assignee_index to
TriggerIndex(new) ==
  IF new.current_assignee_index = NullInt THEN 0
  ELSE (new.current_assignee_index + 1) % Len(new.rotation_members)

\* update_next_due, second part: the next assignee of a rotation
\* (NEW.rotation_members[NEW.current_assignee_index + 1], arrays 1-indexed)
WithNextAssignee(new) ==
  IF new.rotation /\ new.rotation_members # NullMembers /\ Len(new.rotation_members) > 0
  THEN [new EXCEPT !.current_assignee_index = TriggerIndex(new),
                   !.assigned_to = At(new.rotation_members, TriggerIndex(new))]
  ELSE new

\* update_next_due that runs on every update of a completed chore
update_next_due_EveryUpdate(old, new) ==
  IF new.last_completed # NullTime
  THEN WithNextAssignee(WithNextDue(new))
  ELSE new

\* update_next_due that recalculates the due date only
update_next_due_DueDateOnly(old, new) ==
  IF new.last_completed # NullTime
     /\ (old.last_completed = NullTime \/ new.last_completed # old.last_completed)
  THEN WithNextDue(new)
  ELSE new

\* BEFORE UPDATE trigger chore_completed: function update_next_due(OLD, NEW)
update_next_due(old, new) ==
  IF new.last_completed # NullTime
     /\ (old.last_completed = NullTime \/ new.last_completed # old.last_completed)
  THEN WithNextAssignee(WithNextDue(new))
  ELSE new

\* UPDATE chores SET <body> WHERE id = old.id: the row as written
pgUpdate(old, body) ==
  LET new == [f \in DOMAIN old |-> IF f \in DOMAIN body THEN body[f] ELSE old[f]]
  IN  update_next_due(old, new)

\* INSERT INTO chores: the row as written (no trigger runs on insert)
pgInsert(newId, body) ==
  [id                     |-> newId,
   frequency              |-> body.frequency,
   assigned_to            |-> body.assigned_to,
   rotation               |-> body.rotation,
   rotation_members       |-> body.rotation_members,
   current_assignee_index |-> body.current_assignee_index,
   next_due               |-> body.next_due,
   last_completed         |-> body.last_completed]


\* SELECT * FROM chores ORDER BY next_due ASC NULLS LAST, as a list.  Rows
\* with equal next_due are listed by id.
SortKeyBefore(a, b) ==
  IF a.next_due = b.next_due THEN a.id < b.id
  ELSE IF a.next_due = NullTime THEN FALSE
  ELSE IF b.next_due = NullTime THEN TRUE
  ELSE a.next_due < b.next_due

RECURSIVE SortedRows(_)
SortedRows(rows) ==
  IF rows = {} THEN <<>>
  ELSE LET first == CHOOSE r \in rows : \A q \in rows \ {r} : SortKeyBefore(r, q)
       IN  <<first>> \o SortedRows(rows \ {first})

\* ------------------------------------------------------------ local lists
Ids(list) == {list[i].id : i \in 1..Len(list)}

\* chores.find(c => c.id === id)
FindChore(list, id) ==
  IF id \in Ids(list)
  THEN list[CHOOSE i \in 1..Len(list) : list[i].id = id /\ \A j \in 1..(i - 1) : list[j].id # id]
  ELSE NoRow

\* prevChores.map(chore => chore.id === id ? updatedChore : chore)
ReplaceChore(list, id, updated) ==
  [i \in 1..Len(list) |-> IF list[i].id = id THEN updated ELSE list[i]]

\* prevChores.filter(chore => chore.id !== id)
RemoveChore(list, id) == SelectSeq(list, LAMBDA c : c.id # id)

\* -------------------------------------------------------------------- time
\* date-fns isThisWeek(date) in session s (weeks start on Sunday, the default)
WeekOf(day) == (day + 1) \div 7

isThisWeek(s, t, nowT) ==
  WeekOf(DayOf(t + TzOffset(s))) = WeekOf(DayOf(nowT + TzOffset(s)))

\* first test of groupChoresByStatus: the chore goes to 'Recently Completed'
RecentlyCompleted(s, chore, nowT) ==
  chore.last_completed # NullTime /\ isThisWeek(s, chore.last_completed, nowT)

\* steps by which the wall clock is sampled: one tick, a week
TickSteps == {1, 7 * TicksPerDay}

\* ---------------------------------------------------------------- requests
\* a request in flight: the operation that issued it, the row id it names, the
\* values it carries, and the chore the issuing handler had read from the
\* local list (completeChore's `chore`)
MkReq(via, id, body, seen) == [via |-> via, id |-> id, body |-> body, seen |-> seen]

\* sessions in which the chore form is used
FormSessions == {1}

\* field values entered in the chore form
FormInputs ==
  { [frequency |-> "daily",   rotation |-> TRUE,  assignedTo |-> Null, rotationMembers |-> <<"A", "B">>],
    [frequency |-> "weekly",  rotation |-> TRUE,  assignedTo |-> Null, rotationMembers |-> <<"A", "B", "C">>],
    [frequency |-> "daily",   rotation |-> TRUE,  assignedTo |-> Null, rotationMembers |-> <<"A">>],
    [frequency |-> "monthly", rotation |-> FALSE, assignedTo |-> "A",  rotationMembers |-> <<>>],
    [frequency |-> "weekly",  rotation |-> FALSE, assignedTo |-> Null, rotationMembers |-> <<>>] }

VARIABLES
  store,        \* chores table: id -> row, NoRow where there is none
  nextId,       \* id of the next inserted row
  now,          \* wall clock (ticks)
  chores,       \* session -> ChoresProvider.chores
  isLoading,    \* session -> ChoresProvider.isLoading
  error,        \* session -> ChoresProvider.error
  isSubmitting, \* session -> ChoreForm.isSubmitting
  reqs,         \* session -> store requests in flight, in the order issued
  settled,      \* how the last finished createChore / updateChore /
                \* completeChore / deleteChore call settled
  ops,          \* user, clock and failure events so far
  calc,         \* argument and result of a calculator evaluated on its own
  errors,       \* errors shown by the chore form and by the to-do form
  todo,         \* todos table and TodosProvider state
  fam,          \* family selection and the chore loads issued for it
  chat          \* one chat turn of ChatProvider.sendMessage, or the state of
                \* CalendarProvider

\* the state outside ChoresProvider and the chores table
rest == <<errors, todo, fam, chat>>

vars == <<store, nextId, now, chores, isLoading, error, isSubmitting, reqs, settled,
          ops, calc, errors, todo, fam, chat>>

\* no form has been submitted
NoErrors == [chore |-> {}, todo |-> {}]

\* TodosProvider, family selection and chat before they are used
NoTodos == [kind |-> "none"]
NoFamily == [kind |-> "none"]
NoChat == [kind |-> "none"]

RestIdle == errors = NoErrors /\ todo = NoTodos /\ fam = NoFamily /\ chat = NoChat

NoCalc == [kind |-> "none"]

Send(s, req) == reqs' = [reqs EXCEPT ![s] = Append(@, req)]

Slots(s) == 1..Len(reqs[s])

\* reqs[s] without its k-th request
Drop(list, k) == [i \in 1..(Len(list) - 1) |-> IF i < k THEN list[i] ELSE list[i + 1]]

\* insert requests in flight
PendingInserts ==
  Cardinality({sk \in UNION {{<<s, k>> : k \in 1..Len(reqs[s])} : s \in Sessions} :
                 reqs[sk[1]][sk[2]].via = "create"})

\* Every session's ChoresProvider is mounted with a user and a family: its
\* effect has run loadChores up to the await (isLoading raised, error
\* cleared, select issued).
InitChores ==
  /\ store = [i \in ChoreIds |-> NoRow]
  /\ nextId = 1
  /\ now = StartDay * TicksPerDay
  /\ chores = [s \in Sessions |-> <<>>]
  /\ isLoading = [s \in Sessions |-> TRUE]
  /\ error = [s \in Sessions |-> Null]
  /\ isSubmitting = [s \in Sessions |-> FALSE]
  /\ reqs = [s \in Sessions |-> <<MkReq("load", 0, NoRow, NoRow)>>]
  /\ settled = "none"
  /\ ops = 0

Init == InitChores /\ calc = NoCalc /\ RestIdle

\* ------------------------------------------------------------------ actions
\* time passes
Tick(d) ==
  /\ ops < MaxOps
  /\ ops' = ops + 1
  /\ now' = now + d
  /\ UNCHANGED <<rest, calc, store, nextId, chores, isLoading, error, isSubmitting, reqs, settled>>

\* handleSubmit of the form for a new chore, with fields that pass
\* validateForm: isSubmitting is raised, createChore raises isLoading, clears
\* error and issues the insert
BeginCreate(s, in) ==
  /\ ops < MaxOps
  /\ ops' = ops + 1
  /\ ~isSubmitting[s]
  /\ validateForm(TRUE, in.rotation, in.rotationMembers)
  /\ nextId + PendingInserts <= MaxChores
  /\ isSubmitting' = [isSubmitting EXCEPT ![s] = TRUE]
  /\ isLoading' = [isLoading EXCEPT ![s] = TRUE]
  /\ error' = [error EXCEPT ![s] = Null]
  /\ LET data == choreData(in.frequency, in.rotation, in.assignedTo, in.rotationMembers)
         body == [frequency              |-> data.frequency,
                  rotation               |-> data.rotation,
                  assigned_to            |-> data.assigned_to,
                  rotation_members       |-> data.rotation_members,
                  current_assignee_index |-> data.current_assignee_index,
                  next_due               |-> calculateNextDueDate(s, in.frequency, NullTime, now),
                  last_completed         |-> NullTime]
     IN  Send(s, MkReq("create", 0, body, NoRow))
  /\ UNCHANGED <<calc, store, nextId, now, chores, settled>>

SubmitCreate(s, in) == BeginCreate(s, in) /\ UNCHANGED rest

\* handleSubmit of the form editing listed chore id (isEditing), with fields
\* that pass validateForm: isSubmitting is raised, updateChore raises
\* isLoading, clears error and issues the update
SubmitUpdate(s, id, in) ==
  /\ ops < MaxOps
  /\ ops' = ops + 1
  /\ ~isSubmitting[s]
  /\ id \in Ids(chores[s])
  /\ validateForm(TRUE, in.rotation, in.rotationMembers)
  /\ isSubmitting' = [isSubmitting EXCEPT ![s] = TRUE]
  /\ isLoading' = [isLoading EXCEPT ![s] = TRUE]
  /\ error' = [error EXCEPT ![s] = Null]
  /\ Send(s, MkReq("update", id,
                   choreData(in.frequency, in.rotation, in.assignedTo, in.rotationMembers),
                   NoRow))
  /\ UNCHANGED <<rest, calc, store, nextId, now, chores, settled>>

\* the list with 'Mark as complete' shown in every group
CompleteOffered_EveryGroup(s, id) ==
  /\ ~isLoading[s]
  /\ id \in Ids(chores[s])

\* the list shows 'Mark as complete' for chore id in session s: the list is
\* not replaced by 'Loading chores...' and the chore is in a group other than
\* 'Recently Completed' (under the filter 'all' every chore is listed)
CompleteOffered(s, id) ==
  /\ ~isLoading[s]
  /\ id \in Ids(chores[s])
  /\ ~RecentlyCompleted(s, FindChore(chores[s], id), now)

\* handleCompleteChore -> completeChore up to the point where the click
\* handler returns: completeChore raises isLoading and clears error, calls
\* updateChore (which does the same and issues the update) without awaiting
\* it, and its own finally block lowers isLoading again
CompleteChore(s, id) ==
  /\ ops < MaxOps
  /\ ops' = ops + 1
  /\ CompleteOffered(s, id)
  /\ isLoading' = [isLoading EXCEPT ![s] = FALSE]
  /\ error' = [error EXCEPT ![s] = Null]
  /\ LET chore == FindChore(chores[s], id)
     IN  Send(s, MkReq("complete", id, completionUpdates(s, chore, now), chore))
  /\ UNCHANGED <<rest, calc, store, nextId, now, chores, isSubmitting, settled>>

\* deleteChore(id) up to its await
DeleteChore(s, id) ==
  /\ ops < MaxOps
  /\ ops' = ops + 1
  /\ id \in Ids(chores[s])
  /\ isLoading' = [isLoading EXCEPT ![s] = TRUE]
  /\ error' = [error EXCEPT ![s] = Null]
  /\ Send(s, MkReq("delete", id, NoRow, NoRow))
  /\ UNCHANGED <<rest, calc, store, nextId, now, chores, isSubmitting, settled>>

\* message each operation's catch block stores in error
ErrorOf(via) ==
  CASE via = "load"     -> "Failed to load chores"
    [] via = "create"   -> "Failed to create chore"
    [] via = "update"   -> "Failed to update chore"
    [] via = "complete" -> "Failed to update chore"
    [] via = "delete"   -> "Failed to delete chore"

\* The part of loadChores / createChore / updateChore / deleteChore after the
\* await and the awaiting caller, for a successful answer carrying row `data`
\* (rows `rows` for a select).  The answer reaches the session as soon as the
\* store has committed.
Resolved(s, k, data, rows) ==
  LET r == reqs[s][k]
  IN  /\ chores' = [chores EXCEPT ![s] =
             CASE r.via = "load"                   -> rows
               [] r.via = "create"                 -> Append(@, data)
               [] r.via \in {"update", "complete"} -> ReplaceChore(@, r.id, data)
               [] r.via = "delete"                 -> RemoveChore(@, r.id)]
      /\ settled' = IF r.via = "load" THEN settled ELSE "resolved"
      /\ isSubmitting' = [isSubmitting EXCEPT ![s] =
             IF r.via \in {"create", "update"} THEN FALSE ELSE @]
      /\ isLoading' = [isLoading EXCEPT ![s] = FALSE]
      /\ reqs' = [reqs EXCEPT ![s] = Drop(@, k)]
      /\ error' = error

\* a catch block that drops the chore from the list and swallows the failure
Rejected_Swallowed(s, k) ==
  LET r == reqs[s][k]
  IN  /\ error' = error
      /\ settled' = IF r.via = "load" THEN settled ELSE "resolved"
      /\ isSubmitting' = [isSubmitting EXCEPT ![s] =
             IF r.via \in {"create", "update"} THEN FALSE ELSE @]
      /\ isLoading' = [isLoading EXCEPT ![s] = FALSE]
      /\ reqs' = [reqs EXCEPT ![s] = Drop(@, k)]
      /\ chores' = [chores EXCEPT ![s] = RemoveChore(@, r.id)]

\* The same for a failed answer: the catch block sets error and rethrows
\* (loadChores does not rethrow), finally lowers isLoading.
Rejected(s, k) ==
  LET r == reqs[s][k]
  IN  /\ error' = [error EXCEPT ![s] = ErrorOf(r.via)]
      /\ settled' = IF r.via = "load" THEN settled ELSE "rejected"
      /\ isSubmitting' = [isSubmitting EXCEPT ![s] =
             IF r.via \in {"create", "update"} THEN FALSE ELSE @]
      /\ isLoading' = [isLoading EXCEPT ![s] = FALSE]
      /\ reqs' = [reqs EXCEPT ![s] = Drop(@, k)]
      /\ chores' = chores

\* supabase.from('chores').select(...).order('next_due', ...)
StoreSelect(s, k) ==
  /\ reqs[s][k].via = "load"
  /\ Resolved(s, k, NoRow, SortedRows({store[i] : i \in {j \in ChoreIds : IsRow(store[j])}}))
  /\ UNCHANGED <<rest, calc, store, nextId, now, ops>>

\* supabase.from('chores').insert([...]).select().single()
StoreInsert(s, k) ==
  /\ reqs[s][k].via = "create"
  /\ LET row == pgInsert(nextId, reqs[s][k].body)
     IN  /\ store' = [store EXCEPT ![nextId] = row]
         /\ Resolved(s, k, row, <<>>)
  /\ nextId' = nextId + 1
  /\ UNCHANGED <<rest, calc, now, ops>>

\* supabase.from('chores').update(updateData).eq('id', id).select().single():
\* the trigger runs on the row; no matching row makes single() fail
StoreUpdate(s, k) ==
  /\ reqs[s][k].via \in {"update", "complete"}
  /\ LET id == reqs[s][k].id
     IN  IF IsRow(store[id])
         THEN LET row == pgUpdate(store[id], reqs[s][k].body)
              IN  /\ store' = [store EXCEPT ![id] = row]
                  /\ Resolved(s, k, row, <<>>)
         ELSE /\ store' = store
              /\ Rejected(s, k)
  /\ UNCHANGED <<rest, calc, nextId, now, ops>>

\* supabase.from('chores').delete().eq('id', id)
StoreDelete(s, k) ==
  /\ reqs[s][k].via = "delete"
  /\ store' = [store EXCEPT ![reqs[s][k].id] = NoRow]
  /\ Resolved(s, k, NoRow, <<>>)
  /\ UNCHANGED <<rest, calc, nextId, now, ops>>

\* the store (or the network) fails the request: nothing is written
StoreFail(s, k) ==
  /\ ops < MaxOps
  /\ ops' = ops + 1
  /\ Rejected(s, k)
  /\ UNCHANGED <<rest, calc, store, nextId, now>>

Next ==
  \/ \E d \in TickSteps : Tick(d)
  \/ \E s \in FormSessions, in \in FormInputs : SubmitCreate(s, in)
  \/ \E s \in FormSessions, id \in ChoreIds, in \in FormInputs : SubmitUpdate(s, id, in)
  \/ \E s \in Sessions, id \in ChoreIds : CompleteChore(s, id)
  \/ \E s \in Sessions, id \in ChoreIds : DeleteChore(s, id)
  \/ \E s \in Sessions : \E k \in Slots(s) : StoreSelect(s, k)
  \/ \E s \in Sessions : \E k \in Slots(s) : StoreInsert(s, k)
  \/ \E s \in Sessions : \E k \in Slots(s) : StoreUpdate(s, k)
  \/ \E s \in Sessions : \E k \in Slots(s) : StoreDelete(s, k)
  \/ \E s \in Sessions : \E k \in Slots(s) : StoreFail(s, k)

Spec == Init /\ [][Next]_vars

TypeOK ==
  /\ nextId \in 1..(MaxChores + 1)
  /\ ops \in 0..MaxOps
  /\ settled \in {"none", "resolved", "rejected"}

\* ------------------------------------------------ the calculators on their own
\* ordered lists of distinct members
RotationLists ==
  {<<a>> : a \in Members}
  \cup {m \in {<<a, b>> : a \in Members, b \in Members} : m[1] # m[2]}
  \cup {m \in {<<a, b, c>> : a \in Members, b \in Members, c \in Members} :
          m[1] # m[2] /\ m[1] # m[3] /\ m[2] # m[3]}

\* a rotating chore at position i of its list (NullInt: no position yet)
RotatingChore(members, i) ==
  [id                     |-> 1,
   frequency              |-> "weekly",
   assigned_to            |-> At(members, i),
   rotation               |-> TRUE,
   rotation_members       |-> members,
   current_assignee_index |-> i,
   next_due               |-> NullTime,
   last_completed         |-> NullTime]

\* a chore without rotation, last completed at t (NullTime: never)
PlainChore(frequency, t) ==
  [id                     |-> 1,
   frequency              |-> frequency,
   assigned_to            |-> Null,
   rotation               |-> FALSE,
   rotation_members       |-> NullMembers,
   current_assignee_index |-> NullInt,
   next_due               |-> NullTime,
   last_completed         |-> t]

CalcInputs ==
  {[kind |-> "rotation", chore |-> RotatingChore(m, i), start |-> i, steps |-> 0] :
      m \in RotationLists, i \in -1..2}
  \cup {[kind |-> "due", frequency |-> f, from |-> d * TicksPerDay, by |-> "none",
         wall |-> NullTime, out |-> NullTime] : f \in Frequencies, d \in 0..(CalcDays - 1)}
  \cup {[kind |-> "completions", chore |-> RotatingChore(m, i), at |-> StartDay * TicksPerDay,
         assigned |-> <<>>] : m \in RotationLists, i \in 0..2}
  \cup {[kind |-> "compare", row |-> [c EXCEPT !.frequency = f], at |-> t, by |-> 0,
         client |-> NoRow, trigger |-> NoRow] :
           c \in {RotatingChore(m, i) : m \in RotationLists, i \in -1..2}
                 \cup {PlainChore("weekly", NullTime)},
           f \in {"daily", "weekly"},
           t \in {StartDay * TicksPerDay + k : k \in 0..(TicksPerDay - 1)}}

InitCalc ==
  /\ InitChores
  /\ RestIdle
  /\ calc \in {c \in CalcInputs :
                 /\ c.kind = "rotation" => c.start < Len(c.chore.rotation_members)
                 /\ c.kind = "completions" =>
                      c.chore.current_assignee_index < Len(c.chore.rotation_members)
                 /\ c.kind = "compare" =>
                      (c.row.rotation =>
                         /\ Len(c.row.rotation_members) >= 2
                         /\ c.row.current_assignee_index < Len(c.row.rotation_members))}

\* the rotation advance of completeChore (nextAssignee, nextAssigneeIndex)
\* applied to the chore
AdvanceRotation ==
  /\ calc.kind = "rotation"
  /\ calc.steps < MaxCycles * Len(calc.chore.rotation_members)
  /\ calc' = [calc EXCEPT
       !.chore = [@ EXCEPT !.assigned_to = getNextAssignee(calc.chore),
                           !.current_assignee_index = nextAssigneeIndex(calc.chore)],
       !.steps = @ + 1]
  /\ UNCHANGED <<rest, store, nextId, now, chores, isLoading, error, isSubmitting, reqs,
                 settled, ops>>

\* calculateNextDueDate(frequency, from) in session s
ClientNextDue(s) ==
  /\ calc.kind = "due" /\ calc.by = "none"
  /\ calc' = [calc EXCEPT !.by = "client", !.wall = calc.from + TzOffset(s),
                          !.out = calculateNextDueDate(s, calc.frequency, calc.from, calc.from)]
  /\ UNCHANGED <<rest, store, nextId, now, chores, isLoading, error, isSubmitting, reqs,
                 settled, ops>>

\* update_next_due on a row whose last_completed becomes `from`
TriggerNextDue ==
  /\ calc.kind = "due" /\ calc.by = "none"
  /\ calc' = [calc EXCEPT !.by = "trigger", !.wall = calc.from,
                          !.out = update_next_due(PlainChore(calc.frequency, NullTime),
                                                  PlainChore(calc.frequency, calc.from)).next_due]
  /\ UNCHANGED <<rest, store, nextId, now, chores, isLoading, error, isSubmitting, reqs,
                 settled, ops>>

\* one completion of the stored chore from an up-to-date copy, a day after
\* the previous one: completeChore's update, then the trigger on the row
CompleteStored(s) ==
  /\ calc.kind = "completions"
  /\ Len(calc.assigned) < MaxCycles * Len(calc.chore.rotation_members)
  /\ LET row == pgUpdate(calc.chore, completionUpdates(s, calc.chore, calc.at))
     IN  calc' = [calc EXCEPT !.chore = row,
                              !.at = addDays(calc.at, 1),
                              !.assigned = Append(@, row.assigned_to)]
  /\ UNCHANGED <<rest, store, nextId, now, chores, isLoading, error, isSubmitting, reqs,
                 settled, ops>>

\* completeChore in session s and update_next_due, each applied on its own to
\* the same row for a completion at calc.at: the values completeChore sends,
\* and the row the trigger makes when only last_completed is written
CompareCompletion(s) ==
  /\ calc.kind = "compare" /\ calc.by = 0
  /\ calc' = [calc EXCEPT
       !.by = s,
       !.client = completionUpdates(s, calc.row, calc.at),
       !.trigger = update_next_due(calc.row, [calc.row EXCEPT !.last_completed = calc.at])]
  /\ UNCHANGED <<rest, store, nextId, now, chores, isLoading, error, isSubmitting, reqs,
                 settled, ops>>

NextCalc ==
  \/ AdvanceRotation
  \/ \E s \in Sessions : CompareCompletion(s)
  \/ \E s \in Sessions : CompleteStored(s)
  \/ \E s \in Sessions : ClientNextDue(s)
  \/ TriggerNextDue

SpecCalc == InitCalc /\ [][NextCalc]_vars


\* ------------------------------------------------- the forms and the to-dos
\* text typed into a title field
Titles == {"", " ", "Buy milk"}

\* a trim that leaves white space in place
Trim_KeepsSpace(t) == t

\* String.prototype.trim
Trim(t) == IF t = " " THEN "" ELSE t

\* text held by the to-do form's dueDate state ('' when left empty)
DueInputs == {"", "2024-02-01T00:00", "soon"}

\* new Date(text).getTime(): NaT stands for NaN
NaT == -2

ParseDate(text) ==
  IF text = "2024-02-01T00:00" THEN MkTime(2024, 2, 1, 0) ELSE NaT

\* the keys validateForm of the chore form puts into errors
choreFormErrors(title, rotation, rotationMembers) ==
  (IF Trim(title) = "" THEN {"title"} ELSE {})
  \cup (IF rotation /\ Len(rotationMembers) < 2 THEN {"rotation"} ELSE {})

\* the keys validateForm of the to-do form puts into errors
todoFormErrors(title, dueDate) ==
  (IF Trim(title) = "" THEN {"title"} ELSE {})
  \cup (IF dueDate # "" /\ ParseDate(dueDate) = NaT THEN {"dueDate"} ELSE {})

\* todoData built by the to-do form's handleSubmit
todoData(title, dueDate) ==
  [title    |-> title,
   due_date |-> IF dueDate = "" THEN Null ELSE dueDate,
   status   |-> "pending"]

TodoStatuses == {"pending", "in_progress", "completed"}

\* a row of the todos table
TodoRow(id, title, dueDate, status) ==
  [id |-> id, title |-> title, due_date |-> dueDate, status |-> status]

\* toggleTodoStatus that marks every to-do completed
newStatus_AlwaysCompleted(t) == "completed"

\* toggleTodoStatus: the status it writes for a to-do
newStatus(t) == IF t.status = "completed" THEN "pending" ELSE "completed"

\* todos tables the behaviour starts from: empty, or one to-do in progress
\* (written by another client)
TodoTables == {<<>>, <<TodoRow(1, "Call school", Null, "in_progress")>>}

\* TodosProvider mounted with a user and a family: loadTodos has run up to
\* its await
TodosMounted(rows) ==
  [rows         |-> rows,
   list         |-> <<>>,
   reqs         |-> <<[via |-> "load", id |-> 0, body |-> NoRow]>>,
   isLoading    |-> TRUE,
   error        |-> Null,
   isSubmitting |-> FALSE,
   settled      |-> "none"]

\* handleSubmit of the chore form (new chore) in session s
ChoreFormSubmit(s, title, in) ==
  IF choreFormErrors(title, in.rotation, in.rotationMembers) = {}
  THEN /\ BeginCreate(s, in)
       /\ errors' = [errors EXCEPT !.chore = {}]
       /\ UNCHANGED <<todo, fam, chat>>
  ELSE /\ ops < MaxOps
       /\ ops' = ops + 1
       /\ ~isSubmitting[s]
       /\ errors' = [errors EXCEPT
                       !.chore = choreFormErrors(title, in.rotation, in.rotationMembers)]
       /\ UNCHANGED <<todo, fam, chat, calc, store, nextId, now, chores, isLoading, error,
                      isSubmitting, reqs, settled>>

\* handleSubmit of the to-do form: for listed to-do `editing` (isEditing), or
\* for a new to-do when editing = 0
TodoFormSubmit(editing, title, dueDate) ==
  /\ ops < MaxOps
  /\ ops' = ops + 1
  /\ ~todo.isSubmitting
  /\ editing = 0 \/ editing \in Ids(todo.list)
  /\ (editing = 0 /\ todoFormErrors(title, dueDate) = {})
     => Len(todo.rows) + Cardinality({k \in 1..Len(todo.reqs) :
                                        todo.reqs[k].via = "create"}) < MaxTodos
  /\ errors' = [errors EXCEPT !.todo = todoFormErrors(title, dueDate)]
  /\ IF todoFormErrors(title, dueDate) = {}
     THEN todo' = [todo EXCEPT
            !.isSubmitting = TRUE,
            !.isLoading = TRUE,
            !.error = Null,
            !.reqs = Append(@, [via  |-> IF editing = 0 THEN "create" ELSE "update",
                                id   |-> editing,
                                body |-> todoData(title, dueDate)])]
     ELSE todo' = todo
  /\ UNCHANGED <<fam, chat, calc, store, nextId, now, chores, isLoading, error,
                 isSubmitting, reqs, settled>>

\* handleToggleTodo -> toggleTodoStatus(id) -> updateTodo up to its await
TodoToggle(id) ==
  /\ ops < MaxOps
  /\ ops' = ops + 1
  /\ id \in Ids(todo.list)
  /\ todo' = [todo EXCEPT
       !.isLoading = TRUE,
       !.error = Null,
       !.reqs = Append(@, [via  |-> "toggle", id |-> id,
                           body |-> [status |-> newStatus(FindChore(todo.list, id))]])]
  /\ UNCHANGED <<errors, fam, chat, calc, store, nextId, now, chores, isLoading, error,
                 isSubmitting, reqs, settled>>

\* UPDATE todos SET <body> WHERE id = old.id
todoUpdate(old, body) ==
  [f \in DOMAIN old |-> IF f \in DOMAIN body THEN body[f] ELSE old[f]]

\* the store answers to-do request k: select, insert or update with the part
\* of loadTodos / createTodo / updateTodo after the await
TodoStoreAnswer(k) ==
  LET r == todo.reqs[k]
  IN  /\ k \in 1..Len(todo.reqs)
      /\ CASE r.via = "load" ->
                todo' = [todo EXCEPT !.list = todo.rows, !.isLoading = FALSE,
                                     !.reqs = Drop(@, k)]
           [] r.via = "create" ->
                LET row == TodoRow(Len(todo.rows) + 1, r.body.title, r.body.due_date,
                                   r.body.status)
                IN  todo' = [todo EXCEPT !.rows = Append(@, row), !.list = Append(@, row),
                                         !.isLoading = FALSE, !.isSubmitting = FALSE,
                                         !.settled = "resolved", !.reqs = Drop(@, k)]
           [] OTHER ->
                LET row == todoUpdate(FindChore(todo.rows, r.id), r.body)
                IN  todo' = [todo EXCEPT !.rows = ReplaceChore(@, r.id, row),
                                         !.list = ReplaceChore(@, r.id, row),
                                         !.isLoading = FALSE,
                                         !.isSubmitting = IF r.via = "update" THEN FALSE ELSE @,
                                         !.settled = "resolved", !.reqs = Drop(@, k)]
      /\ UNCHANGED <<errors, fam, chat, calc, store, nextId, now, chores, isLoading, error,
                     isSubmitting, reqs, settled, ops>>

\* the store (or the network) fails to-do request k: the catch block sets
\* error and rethrows (loadTodos does not), finally lowers isLoading
TodoStoreFail(k) ==
  LET r == todo.reqs[k]
  IN  /\ ops < MaxOps
      /\ ops' = ops + 1
      /\ k \in 1..Len(todo.reqs)
      /\ todo' = [todo EXCEPT
           !.error = CASE r.via = "load"   -> "Failed to load to-dos"
                       [] r.via = "create" -> "Failed to create to-do"
                       [] OTHER            -> "Failed to update to-do",
           !.isLoading = FALSE,
           !.isSubmitting = IF r.via \in {"create", "update"} THEN FALSE ELSE @,
           !.settled = IF r.via = "load" THEN @ ELSE "rejected",
           !.reqs = Drop(@, k)]
      /\ errors' = IF r.via \in {"create", "update"}
                   THEN [errors EXCEPT !.todo = {"submit"}] ELSE errors
      /\ UNCHANGED <<fam, chat, calc, store, nextId, now, chores, isLoading, error,
                     isSubmitting, reqs, settled>>

InitForms ==
  /\ InitChores
  /\ calc = NoCalc
  /\ errors = NoErrors
  /\ todo \in {TodosMounted(rows) : rows \in TodoTables}
  /\ fam = NoFamily
  /\ chat = NoChat

NextForms ==
  \/ \E s \in FormSessions, title \in Titles, in \in FormInputs : ChoreFormSubmit(s, title, in)
  \/ \E s \in Sessions : \E k \in Slots(s) : StoreSelect(s, k)
  \/ \E s \in Sessions : \E k \in Slots(s) : StoreInsert(s, k)
  \/ \E s \in Sessions : \E k \in Slots(s) : StoreFail(s, k)
  \/ \E editing \in 0..MaxTodos, title \in Titles, dueDate \in DueInputs :
       TodoFormSubmit(editing, title, dueDate)
  \/ \E id \in 1..MaxTodos : TodoToggle(id)
  \/ \E k \in 1..Len(todo.reqs) : TodoStoreAnswer(k)
  \/ \E k \in 1..Len(todo.reqs) : TodoStoreFail(k)

SpecForms == InitForms /\ [][NextForms]_vars

\* ------------------------------------------------------ the lists' grouping
\* date-fns isToday / isTomorrow in session s, isPast, isBefore
isToday_InStoreZone(s, t, nowT) == DayOf(t) = DayOf(nowT)

isToday(s, t, nowT) == DayOf(t + TzOffset(s)) = DayOf(nowT + TzOffset(s))

isTomorrow(s, t, nowT) == DayOf(t + TzOffset(s)) = DayOf(nowT + TzOffset(s)) + 1

isPast(t, nowT) == t < nowT

isBefore(t, u) == t < u

\* key of the group groupChoresByStatus pushes a chore to
choreGroup(s, chore, nowT) ==
  IF RecentlyCompleted(s, chore, nowT) THEN "completed"
  ELSE IF chore.next_due = NullTime THEN "upcoming"
  ELSE IF isPast(chore.next_due, nowT) /\ ~isToday(s, chore.next_due, nowT) THEN "overdue"
  ELSE IF isToday(s, chore.next_due, nowT) THEN "dueToday"
  ELSE "upcoming"

\* the groups object of groupChoresByStatus: keys in insertion order, labels
choreGroupKeys_CompletedFirst == <<"completed", "overdue", "dueToday", "upcoming">>

choreGroupKeys == <<"overdue", "dueToday", "upcoming", "completed">>

choreGroupLabel(key) ==
  CASE key = "overdue"   -> "Overdue"
    [] key = "dueToday"  -> "Due Today"
    [] key = "upcoming"  -> "Upcoming"
    [] key = "completed" -> "Recently Completed"

\* groupChoresByStatus() over the list sortedChores
groupChoresByStatus(s, sortedChores, nowT) ==
  LET groups == [i \in 1..Len(choreGroupKeys) |->
                   [label  |-> choreGroupLabel(choreGroupKeys[i]),
                    chores |-> SelectSeq(sortedChores,
                                 LAMBDA c : choreGroup(s, c, nowT) = choreGroupKeys[i])]]
  IN  SelectSeq(groups, LAMBDA g : Len(g.chores) > 0)

\* a to-do as the list reads it: due is new Date(todo.due_date).getTime()
TodoItem(id, due, status, priority) ==
  [id |-> id, due |-> due, status |-> status, priority |-> priority]

priorityValue(p) == CASE p = "high" -> 0 [] p = "medium" -> 1 [] p = "low" -> 2

\* comparator of sortedTodos: negative when a goes first
compareTodos(a, b) ==
  IF a.status = "completed" /\ b.status # "completed" THEN 1
  ELSE IF a.status # "completed" /\ b.status = "completed" THEN -1
  ELSE IF a.due # NullTime /\ b.due # NullTime THEN a.due - b.due
  ELSE IF a.due # NullTime /\ b.due = NullTime THEN -1
  ELSE IF a.due = NullTime /\ b.due # NullTime THEN 1
  ELSE priorityValue(a.priority) - priorityValue(b.priority)

\* [...filteredTodos].sort(compareTodos): Array.prototype.sort is stable
RECURSIVE InsertTodo(_, _)
InsertTodo(sorted, t) ==
  IF sorted = <<>> THEN <<t>>
  ELSE IF compareTodos(sorted[Len(sorted)], t) <= 0 THEN Append(sorted, t)
  ELSE Append(InsertTodo(SubSeq(sorted, 1, Len(sorted) - 1), t), sorted[Len(sorted)])

RECURSIVE sortedTodos(_)
sortedTodos(filteredTodos) ==
  IF filteredTodos = <<>> THEN <<>>
  ELSE InsertTodo(sortedTodos(SubSeq(filteredTodos, 1, Len(filteredTodos) - 1)),
                  filteredTodos[Len(filteredTodos)])

\* groupTodosByDueDate whose overdue branch does not look at the status
todoGroup_OverdueWhateverStatus(s, t, nowT) ==
  IF t.due = NullTime THEN "noDueDate"
  ELSE IF isBefore(t.due, nowT) /\ ~isToday(s, t.due, nowT) THEN "overdue"
  ELSE IF isToday(s, t.due, nowT) THEN "today"
  ELSE IF isTomorrow(s, t.due, nowT) THEN "tomorrow"
  ELSE IF isBefore(t.due, addDays(nowT, 7)) THEN "thisWeek"
  ELSE "later"

\* groupTodosByDueDate without its overdue branch
todoGroup_NoOverdue(s, t, nowT) ==
  IF t.due = NullTime THEN "noDueDate"
  ELSE IF isToday(s, t.due, nowT) THEN "today"
  ELSE IF isTomorrow(s, t.due, nowT) THEN "tomorrow"
  ELSE IF isBefore(t.due, addDays(nowT, 7)) THEN "thisWeek"
  ELSE "later"

\* key of the group groupTodosByDueDate pushes a to-do to
todoGroup(s, t, nowT) ==
  IF t.due = NullTime THEN "noDueDate"
  ELSE IF isBefore(t.due, nowT) /\ ~isToday(s, t.due, nowT) /\ t.status # "completed"
       THEN "overdue"
  ELSE IF isToday(s, t.due, nowT) THEN "today"
  ELSE IF isTomorrow(s, t.due, nowT) THEN "tomorrow"
  ELSE IF isBefore(t.due, addDays(nowT, 7)) THEN "thisWeek"
  ELSE "later"

todoGroupKeys == <<"overdue", "today", "tomorrow", "thisWeek", "later", "noDueDate">>

todoGroupLabel(key) ==
  CASE key = "overdue"   -> "Overdue"
    [] key = "today"     -> "Today"
    [] key = "tomorrow"  -> "Tomorrow"
    [] key = "thisWeek"  -> "This Week"
    [] key = "later"     -> "Later"
    [] key = "noDueDate" -> "No Due Date"

\* groupTodosByDueDate() over the list filteredTodos, sorted first
groupTodosByDueDate(s, filteredTodos, nowT) ==
  LET groups == [i \in 1..Len(todoGroupKeys) |->
                   [label |-> todoGroupLabel(todoGroupKeys[i]),
                    todos |-> SelectSeq(sortedTodos(filteredTodos),
                                LAMBDA t : todoGroup(s, t, nowT) = todoGroupKeys[i])]]
  IN  SelectSeq(groups, LAMBDA g : Len(g.todos) > 0)

\* the to-dos in the order the list renders them: group after group
RECURSIVE Flatten(_)
Flatten(groups) ==
  IF groups = <<>> THEN <<>> ELSE Head(groups).todos \o Flatten(Tail(groups))

\* the status criterion of filterTodos as TodosList passes it
filterTodos(todos, filter) ==
  IF filter \in {"pending", "completed"}
  THEN SelectSeq(todos, LAMBDA t : t.status = filter)
  ELSE todos

\* ---------------------------------------------- specification of the lists
MaxChoreList == 3       \* chores in a rendered list
MaxTodoList == 3        \* to-dos in a rendered list
ListSpan == 8           \* days before and after now a timestamp may lie

ListNows == {(StartDay + d) * TicksPerDay + k : d \in 0..6, k \in 0..(TicksPerDay - 1)}

ListTimes(nowT) ==
  {NullTime} \cup {nowT + k : k \in (0 - ListSpan * TicksPerDay)..(ListSpan * TicksPerDay)}

\* the instant the rendered lists are computed at: midday of the start day
ListNow == StartDay * TicksPerDay + 1

ListChore(lastCompleted, nextDue) ==
  [PlainChore("weekly", lastCompleted) EXCEPT !.next_due = nextDue]

ChorePool ==
  {ListChore(lc, nd) : lc \in {NullTime, ListNow},
                       nd \in {NullTime, addDays(ListNow, -2), ListNow, addDays(ListNow, 2)}}

TodoPool ==
  {TodoItem(1, due, st, "medium") :
     due \in {addDays(ListNow, -2), ListNow - 1, addDays(ListNow, 1),
              addDays(ListNow, 3), addDays(ListNow, 8)},
     st \in TodoStatuses}
  \cup {TodoItem(1, NullTime, st, p) : st \in {"pending", "completed"}, p \in {"high", "low"}}

SeqsUpTo(S, n) == UNION {[1..k -> S] : k \in 0..n}

\* a list about to be rendered: one chore at any instant of a week, a list of
\* chores, or a list of to-dos
InitList ==
  /\ InitChores
  /\ RestIdle
  /\ \/ \E s \in Sessions, t \in ListNows :
          \E lc \in ListTimes(StartDay * TicksPerDay), nd \in ListTimes(StartDay * TicksPerDay) :
            calc = [kind |-> "classify", s |-> s, chore |-> ListChore(lc, nd), nowT |-> t,
                    group |-> "none"]
     \/ \E s \in Sessions, l \in SeqsUpTo(ChorePool, MaxChoreList) :
          calc = [kind |-> "chores", s |-> s, list |-> l, nowT |-> ListNow, done |-> FALSE,
                  groups |-> <<>>]
     \/ \E s \in Sessions, l \in SeqsUpTo(TodoPool, MaxTodoList) :
          calc = [kind |-> "todos", s |-> s, list |-> l, nowT |-> ListNow, done |-> FALSE,
                  filter |-> "none", groups |-> <<>>, shown |-> <<>>]

\* one chore through the branches of groupChoresByStatus
ClassifyChore ==
  /\ calc.kind = "classify" /\ calc.group = "none"
  /\ calc' = [calc EXCEPT !.group = choreGroupLabel(choreGroup(calc.s, calc.chore, calc.nowT))]
  /\ UNCHANGED <<rest, store, nextId, now, chores, isLoading, error, isSubmitting, reqs,
                 settled, ops>>

\* ChoresList renders groupChoresByStatus()
RenderChores ==
  /\ calc.kind = "chores" /\ ~calc.done
  /\ calc' = [calc EXCEPT !.done = TRUE,
                          !.groups = groupChoresByStatus(calc.s, calc.list, calc.nowT)]
  /\ UNCHANGED <<rest, store, nextId, now, chores, isLoading, error, isSubmitting, reqs,
                 settled, ops>>

\* TodosList renders groupTodosByDueDate() under a filter
RenderTodos(filter) ==
  /\ calc.kind = "todos" /\ ~calc.done
  /\ LET groups == groupTodosByDueDate(calc.s, filterTodos(calc.list, filter), calc.nowT)
     IN  calc' = [calc EXCEPT !.done = TRUE, !.filter = filter,
                              !.groups = groups, !.shown = Flatten(groups)]
  /\ UNCHANGED <<rest, store, nextId, now, chores, isLoading, error, isSubmitting, reqs,
                 settled, ops>>

NextList ==
  \/ ClassifyChore
  \/ RenderChores
  \/ \E filter \in {"all", "pending", "completed"} : RenderTodos(filter)

SpecList == InitList /\ [][NextList]_vars

\* ------------------------------------------- specification of family switch
MaxSwitches == 3        \* family changes made in the header

Families == {"F1", "F2", "F3"}

\* chores table: rows with their family_id
FamilyChores == <<[id |-> 1, family_id |-> "F1"], [id |-> 2, family_id |-> "F2"],
                  [id |-> 3, family_id |-> "F2"]>>

\* select ... .eq('family_id', familyId)
ChoresOfFamily(familyId) == SelectSeq(FamilyChores, LAMBDA c : c.family_id = familyId)

WithoutLoad(loads, k) == SubSeq(loads, 1, k - 1) \o SubSeq(loads, k + 1, Len(loads))

\* AuthProvider selected the first family; the effect of ChoresProvider ran
\* loadChores up to its await
InitFamily ==
  /\ InitChores
  /\ calc = NoCalc
  /\ errors = NoErrors /\ todo = NoTodos /\ chat = NoChat
  /\ fam = [kind |-> "family", currentFamily |-> "F1", chores |-> <<>>, loads |-> <<"F1">>,
            isLoading |-> TRUE, error |-> Null, switches |-> 0]

\* handleFamilyChange(familyId): setCurrentFamily, then the effect on
\* [user, currentFamily] runs loadChores up to its await
handleFamilyChange(familyId) ==
  /\ fam.kind = "family"
  /\ fam.switches < MaxSwitches
  /\ familyId # fam.currentFamily
  /\ fam' = [fam EXCEPT !.currentFamily = familyId,
                        !.isLoading = TRUE, !.error = Null,
                        !.loads = Append(@, familyId),
                        !.switches = @ + 1]
  /\ UNCHANGED <<errors, todo, chat, calc, store, nextId, now, chores, isLoading, error,
                 isSubmitting, reqs, settled, ops>>

\* the k-th load in flight is answered: setChores(formattedChores), finally
LoadAnswered(k) ==
  /\ fam.kind = "family"
  /\ k \in 1..Len(fam.loads)
  /\ fam' = [fam EXCEPT !.chores = ChoresOfFamily(fam.loads[k]),
                        !.isLoading = FALSE,
                        !.loads = WithoutLoad(@, k)]
  /\ UNCHANGED <<errors, todo, chat, calc, store, nextId, now, chores, isLoading, error,
                 isSubmitting, reqs, settled, ops>>

\* the k-th load in flight fails: catch, finally
LoadFailed(k) ==
  /\ fam.kind = "family"
  /\ k \in 1..Len(fam.loads)
  /\ fam' = [fam EXCEPT !.error = "Failed to load chores",
                        !.isLoading = FALSE,
                        !.loads = WithoutLoad(@, k)]
  /\ UNCHANGED <<errors, todo, chat, calc, store, nextId, now, chores, isLoading, error,
                 isSubmitting, reqs, settled, ops>>

NextFamily ==
  \/ \E familyId \in Families : handleFamilyChange(familyId)
  \/ \E k \in 1..(MaxSwitches + 1) : LoadAnswered(k)
  \/ \E k \in 1..(MaxSwitches + 1) : LoadFailed(k)

SpecFamily == InitFamily /\ [][NextFamily]_vars

\* ----------------------------------------------- specification of the chat
MaxTurns == 2           \* messages sent in the chat

Commands == {"create", "update", "delete", "query", Null}

\* eventDetails returned by extractCalendarCommand: null, or an object whose
\* fields may be missing (Null), empty, unparseable or well-formed
NoDetails == [absent |-> TRUE]

EventDetails ==
  {NoDetails} \cup [summary : {Null, "", "Dentist"},
               start   : {Null, "soon", "2024-02-01T00:00"},
               end     : {Null, "soon", "2024-02-01T00:00"}]

\* JavaScript truthiness of a string-valued field
Truthy(x) == x # Null /\ x # ""

\* new Date(text).toISOString(): throws RangeError on an invalid date
toISOStringThrows(text) == ParseDate(text) = NaT

\* the calendar command block of sendMessage without its test of the command
calendarCommand_AnyCommand(command, eventDetails) ==
  IF Truthy(command) /\ eventDetails # NoDetails
  THEN IF /\ Truthy(eventDetails.summary)
          /\ Truthy(eventDetails.start)
          /\ Truthy(eventDetails.end)
       THEN IF toISOStringThrows(eventDetails.start) \/ toISOStringThrows(eventDetails.end)
            THEN "throws"
            ELSE "addEvent"
       ELSE "nothing"
  ELSE "nothing"

\* the calendar command block of sendMessage: what it does with commandResult
calendarCommand(command, eventDetails) ==
  IF Truthy(command) /\ eventDetails # NoDetails
  THEN IF command = "create"
       THEN IF /\ Truthy(eventDetails.summary)
               /\ Truthy(eventDetails.start)
               /\ Truthy(eventDetails.end)
            THEN IF toISOStringThrows(eventDetails.start) \/ toISOStringThrows(eventDetails.end)
                 THEN "throws"
                 ELSE "addEvent"
            ELSE "nothing"
       ELSE "nothing"
  ELSE "nothing"

\* the family and the user sendMessage runs for
ChatFamily == "F1"

ChatUser == "A"

NoResponse == [to |-> 0, obtained |-> FALSE]

\* ChatProvider with a user and a family, no message being handled
InitChat ==
  /\ InitChores
  /\ calc = NoCalc
  /\ errors = NoErrors /\ todo = NoTodos /\ fam = NoFamily
  /\ chat = [kind |-> "chat", pc |-> "idle", command |-> Null, eventDetails |-> NoDetails,
             calls |-> <<>>, messages |-> 0, isLoading |-> FALSE, turns |-> 0,
             content |-> 0, response |-> NoResponse, history |-> <<>>]

\* sendMessage up to await extractCalendarCommand(content)
sendMessage ==
  /\ chat.kind = "chat" /\ chat.pc = "idle"
  /\ chat.turns < MaxTurns
  /\ chat' = [chat EXCEPT !.pc = "extracting", !.isLoading = TRUE, !.messages = @ + 1,
                          !.turns = @ + 1, !.command = Null, !.eventDetails = NoDetails,
                          !.content = chat.turns + 1, !.response = NoResponse]
  /\ UNCHANGED <<errors, todo, fam, calc, store, nextId, now, chores, isLoading, error,
                 isSubmitting, reqs, settled, ops>>

\* extractCalendarCommand answers (null command and details when it failed);
\* sendMessage goes on through the calendar command block, up to the await of
\* addEvent or of generateResponse
CommandExtracted(command, eventDetails) ==
  /\ chat.kind = "chat" /\ chat.pc = "extracting"
  /\ chat' = [chat EXCEPT
       !.command = command,
       !.eventDetails = eventDetails,
       !.calls = IF calendarCommand(command, eventDetails) = "addEvent"
                 THEN Append(@, [op      |-> "create",
                                 summary |-> eventDetails.summary,
                                 start   |-> ParseDate(eventDetails.start),
                                 end     |-> ParseDate(eventDetails.end)])
                 ELSE @,
       !.pc = IF calendarCommand(command, eventDetails) = "addEvent"
              THEN "adding" ELSE "responding"]
  /\ UNCHANGED <<errors, todo, fam, calc, store, nextId, now, chores, isLoading, error,
                 isSubmitting, reqs, settled, ops>>

\* addEvent resolves, or rejects into the inner catch; either way sendMessage
\* goes on to generateResponse
AddEventSettled ==
  /\ chat.kind = "chat" /\ chat.pc = "adding"
  /\ chat' = [chat EXCEPT !.pc = "responding"]
  /\ UNCHANGED <<errors, todo, fam, calc, store, nextId, now, chores, isLoading, error,
                 isSubmitting, reqs, settled, ops>>

\* generateResponse(conversationHistory, context) returns: the assistant's
\* reply, or the apology text its catch block returns when the call failed
generateResponse(content, obtained) ==
  [to |-> content, obtained |-> obtained]

ResponseReturned(obtained) ==
  /\ chat.kind = "chat" /\ chat.pc = "responding"
  /\ chat' = [chat EXCEPT !.pc = "saving",
                          !.response = generateResponse(chat.content, obtained)]
  /\ UNCHANGED <<errors, todo, fam, calc, store, nextId, now, chores, isLoading, error,
                 isSubmitting, reqs, settled, ops>>

\* the chat_history insert succeeds: assistant message, finally
TurnEnded ==
  /\ chat.kind = "chat" /\ chat.pc = "saving"
  /\ chat' = [chat EXCEPT
       !.history = Append(@, [family_id |-> ChatFamily, user_id |-> ChatUser,
                              message |-> chat.content, response |-> chat.response]),
       !.pc = "idle", !.messages = @ + 1, !.isLoading = FALSE]
  /\ UNCHANGED <<errors, todo, fam, calc, store, nextId, now, chores, isLoading, error,
                 isSubmitting, reqs, settled, ops>>

\* the chat_history insert fails (dbError): catch adds the error message,
\* finally
TurnFailed ==
  /\ chat.kind = "chat" /\ chat.pc = "saving"
  /\ chat' = [chat EXCEPT !.pc = "idle", !.messages = @ + 1, !.isLoading = FALSE]
  /\ UNCHANGED <<errors, todo, fam, calc, store, nextId, now, chores, isLoading, error,
                 isSubmitting, reqs, settled, ops>>

NextChat ==
  \/ sendMessage
  \/ \E command \in Commands, eventDetails \in EventDetails :
       CommandExtracted(command, eventDetails)
  \/ AddEventSettled
  \/ \E obtained \in BOOLEAN : ResponseReturned(obtained)
  \/ TurnEnded
  \/ TurnFailed

SpecChat == InitChat /\ [][NextChat]_vars

\* ------------------------------------------ specification of AuthProvider
MaxCreates == 2         \* calls of createNewFamily

Pathnames == {"/setup", "/dashboard"}

\* what ProtectedRoute returns without its test of isLoading
ProtectedRoute_NoLoadingCheck(loading, user, families, pathname) ==
  IF user = Null THEN "/login"
  ELSE IF Len(families) = 0 /\ pathname # "/setup" THEN "/setup"
  ELSE "children"

\* what ProtectedRoute returns: the spinner, a <Navigate to=...>, or children
ProtectedRoute(loading, user, families, pathname) ==
  IF loading THEN "spinner"
  ELSE IF user = Null THEN "/login"
  ELSE IF Len(families) = 0 /\ pathname # "/setup" THEN "/setup"
  ELSE "children"

\* React renders the route again after every state change
Rendered(a) ==
  [a EXCEPT !.route = ProtectedRoute(a.isLoading, a.user, a.families, a.pathname)]

NoOp == [stage |-> "none", id |-> 0, user |-> Null]

FamilyRow(id, createdBy) == [id |-> id, created_by |-> createdBy]

MemberRow(familyId, userId) == [family_id |-> familyId, user_id |-> userId, role |-> "parent"]

\* loadUserFamilies(userId): ids of the families the user is a member of
FamiliesOf(dbFamilies, dbMembers, userId) ==
  LET rows == SelectSeq(dbFamilies, LAMBDA f :
                \E i \in 1..Len(dbMembers) :
                  dbMembers[i].family_id = f.id /\ dbMembers[i].user_id = userId)
  IN  [i \in 1..Len(rows) |-> rows[i].id]

\* AuthProvider mounted: initAuth has run up to await getSession()
InitAuth ==
  /\ InitChores
  /\ calc = NoCalc
  /\ errors = NoErrors /\ todo = NoTodos /\ chat = NoChat
  /\ \E session \in {Null, "A"}, pathname \in Pathnames, member \in BOOLEAN :
       fam = Rendered(
         [kind |-> "auth", user |-> Null, isLoading |-> TRUE, families |-> <<>>,
          currentFamily |-> 0, pathname |-> pathname, pc |-> "getSession",
          reload |-> FALSE, session |-> session,
          dbFamilies |-> IF member THEN <<FamilyRow(1, "A")>> ELSE <<>>,
          dbMembers |-> IF member THEN <<MemberRow(1, "A")>> ELSE <<>>,
          op |-> NoOp, settled |-> "none", creates |-> 0, route |-> "spinner"])

AuthFrame ==
  UNCHANGED <<errors, todo, chat, calc, store, nextId, now, chores, isLoading, error,
              isSubmitting, reqs, settled, ops>>

\* initAuth after getSession(): setUser, then loadUserFamilies for a user, or
\* finally for none; a getSession that throws (ok = FALSE) goes to finally
SessionRead(ok) ==
  /\ fam.kind = "auth" /\ fam.pc = "getSession"
  /\ fam' = Rendered(
       IF ok /\ fam.session # Null
       THEN [fam EXCEPT !.user = fam.session, !.pc = "loadFamilies"]
       ELSE [fam EXCEPT !.user = IF ok THEN fam.session ELSE @,
                        !.isLoading = FALSE, !.pc = "ready"])
  /\ AuthFrame

\* loadUserFamilies returns to initAuth (families set when the selects
\* succeeded and found some), finally lowers isLoading
InitFamiliesLoaded(ok) ==
  /\ fam.kind = "auth" /\ fam.pc = "loadFamilies"
  /\ LET ids == FamiliesOf(fam.dbFamilies, fam.dbMembers, fam.user)
     IN  fam' = Rendered(
           IF ok /\ Len(ids) > 0
           THEN [fam EXCEPT !.families = ids, !.currentFamily = ids[1],
                            !.isLoading = FALSE, !.pc = "ready"]
           ELSE [fam EXCEPT !.isLoading = FALSE, !.pc = "ready"])
  /\ AuthFrame

\* onAuthStateChange('SIGNED_OUT', null): the session ended
SignedOut ==
  /\ fam.kind = "auth" /\ fam.session # Null
  /\ fam' = Rendered([fam EXCEPT !.session = Null, !.user = Null, !.families = <<>>,
                                 !.currentFamily = 0, !.reload = FALSE])
  /\ AuthFrame

\* onAuthStateChange('SIGNED_IN', session) up to await loadUserFamilies
SignedIn ==
  /\ fam.kind = "auth" /\ fam.session = Null
  /\ fam' = Rendered([fam EXCEPT !.session = "A", !.user = "A", !.reload = TRUE])
  /\ AuthFrame

\* loadUserFamilies of the SIGNED_IN handler returns
ReloadFamiliesLoaded(ok) ==
  /\ fam.kind = "auth" /\ fam.reload
  /\ LET ids == FamiliesOf(fam.dbFamilies, fam.dbMembers, fam.user)
     IN  fam' = Rendered(
           IF ok /\ Len(ids) > 0
           THEN [fam EXCEPT !.families = ids, !.currentFamily = ids[1], !.reload = FALSE]
           ELSE [fam EXCEPT !.reload = FALSE])
  /\ AuthFrame

\* the browser moves to another protected path
Navigate(pathname) ==
  /\ fam.kind = "auth" /\ fam.pathname # pathname
  /\ fam' = Rendered([fam EXCEPT !.pathname = pathname])
  /\ AuthFrame

\* FamilySetup (shown at /setup to a user without a family) submits:
\* createNewFamily(name) up to the await of the families insert
createNewFamily ==
  /\ fam.kind = "auth" /\ fam.user # Null
  /\ fam.route = "children" /\ fam.pathname = "/setup" /\ Len(fam.families) = 0
  /\ fam.op.stage = "none"
  /\ fam.creates < MaxCreates
  /\ fam' = Rendered([fam EXCEPT !.isLoading = TRUE, !.settled = "none",
                                 !.creates = @ + 1,
                                 !.op = [stage |-> "familyInsert", id |-> 0,
                                         user |-> fam.user]])
  /\ AuthFrame

\* the families insert answers: the row is stored and createNewFamily goes on
\* to the family_members insert, or familyError is thrown (catch, finally)
FamilyInsertAnswered(ok) ==
  /\ fam.kind = "auth" /\ fam.op.stage = "familyInsert"
  /\ LET id == Len(fam.dbFamilies) + 1
     IN  fam' = Rendered(
           IF ok
           THEN [fam EXCEPT !.dbFamilies = Append(@, FamilyRow(id, fam.op.user)),
                            !.op = [@ EXCEPT !.stage = "memberInsert", !.id = id]]
           ELSE [fam EXCEPT !.op = [@ EXCEPT !.stage = "none"], !.settled = "rejected",
                            !.isLoading = FALSE])
  /\ AuthFrame

\* the family_members insert answers: setFamilies, setCurrentFamily and return,
\* or memberError is thrown (catch, finally)
MemberInsertAnswered(ok) ==
  /\ fam.kind = "auth" /\ fam.op.stage = "memberInsert"
  /\ fam' = Rendered(
       IF ok
       THEN [fam EXCEPT !.dbMembers = Append(@, MemberRow(fam.op.id, fam.op.user)),
                        !.families = Append(@, fam.op.id),
                        !.currentFamily = fam.op.id,
                        !.op = [@ EXCEPT !.stage = "none"], !.settled = "resolved",
                        !.isLoading = FALSE]
       ELSE [fam EXCEPT !.op = [@ EXCEPT !.stage = "none"], !.settled = "rejected",
                        !.isLoading = FALSE])
  /\ AuthFrame

NextAuth ==
  \/ \E ok \in BOOLEAN : SessionRead(ok)
  \/ \E ok \in BOOLEAN : InitFamiliesLoaded(ok)
  \/ SignedOut
  \/ SignedIn
  \/ \E ok \in BOOLEAN : ReloadFamiliesLoaded(ok)
  \/ \E pathname \in Pathnames : Navigate(pathname)
  \/ createNewFamily
  \/ \E ok \in BOOLEAN : FamilyInsertAnswered(ok)
  \/ \E ok \in BOOLEAN : MemberInsertAnswered(ok)

SpecAuth == InitAuth /\ [][NextAuth]_vars

\* ------------------------------------------- specification of the calendar
MaxSelections == 3      \* changes of date, view or calendar selection

ViewTypes == {"day", "week", "month"}

\* days setSelectedDate is called with
CalendarDates == {StartDay, StartDay + 1}

\* the user's calendars, as getCalendarList returns them
CalendarIds == <<"c1", "c2">>

\* the events Google Calendar holds, by start
GoogleEvents ==
  << [id |-> "e1", calendarId |-> "c1", start |-> StartDay * TicksPerDay],
     [id |-> "e2", calendarId |-> "c2", start |-> StartDay * TicksPerDay],
     [id |-> "e3", calendarId |-> "c1", start |-> (StartDay + 1) * TicksPerDay] >>

\* date-fns startOfDay / endOfDay of a day number
startOfDay(day) == day * TicksPerDay

endOfDay(day) == day * TicksPerDay + TicksPerDay - 1

\* startOfWeek / endOfWeek with weekStartsOn: 1 (2024-01-01 is a Monday)
weekRange(monday) == [timeMin |-> startOfDay(monday), timeMax |-> endOfDay(monday + 6)]

\* startOfMonth / endOfMonth of the month of civil date c
monthRange(c) ==
  [timeMin |-> MkTime(c.y, c.m, 1, 0),
   timeMax |-> MkTime(c.y, c.m, DaysInMonth(c.y, c.m), TicksPerDay - 1)]

getTimeRangeForView(date, view) ==
  CASE view = "day"   -> [timeMin |-> startOfDay(date), timeMax |-> endOfDay(date)]
    [] view = "week"  -> weekRange(date - (date % 7))
    [] view = "month" -> monthRange(CivilFromDays(date + EpochDays))

\* getEvents(calendarId, timeMin, timeMax), formatted
getEvents(calendarId, timeMin, timeMax) ==
  SelectSeq(GoogleEvents,
            LAMBDA e : e.calendarId = calendarId /\ timeMin <= e.start /\ e.start <= timeMax)

\* calendars.filter(cal => cal.selected).map(cal => cal.id)
selectedCalendarIds(calendars) ==
  LET chosen == SelectSeq(calendars, LAMBDA cal : cal.selected)
  IN  [i \in 1..Len(chosen) |-> chosen[i].id]

\* refreshEvents up to its first await, for the state c the effect sees: with
\* no calendar selected it sets no events and returns through finally
startRefresh(c, range, ids) ==
  IF ids = <<>>
  THEN [c EXCEPT !.error = Null, !.events = <<>>, !.isLoading = FALSE]
  ELSE [c EXCEPT !.error = Null, !.isLoading = TRUE,
                 !.calls = Append(@, [timeMin |-> range.timeMin, timeMax |-> range.timeMax,
                                      ids |-> ids, allEvents |-> <<>>])]

\* the effect on [user, selectedDate, viewType, calendars]
refreshEvents(c) ==
  startRefresh(c, getTimeRangeForView(c.selectedDate, c.viewType),
               selectedCalendarIds(c.calendars))

\* CalendarProvider with a user whose calendars are loaded, all selected: the
\* effect has run refreshEvents up to its first await
InitCalendar ==
  /\ InitChores
  /\ calc = NoCalc
  /\ errors = NoErrors /\ todo = NoTodos /\ fam = NoFamily
  /\ chat = refreshEvents(
       [kind |-> "calendar", selectedDate |-> StartDay, viewType |-> "month",
        calendars |-> [i \in 1..Len(CalendarIds) |-> [id |-> CalendarIds[i], selected |-> TRUE]],
        events |-> <<>>, isLoading |-> FALSE, error |-> Null, calls |-> <<>>,
        selections |-> 0])

CalendarFrame ==
  UNCHANGED <<errors, todo, fam, calc, store, nextId, now, chores, isLoading, error,
              isSubmitting, reqs, settled, ops>>

\* setSelectedDate(date) for another day, then the effect
setSelectedDate(date) ==
  /\ chat.kind = "calendar" /\ chat.selections < MaxSelections
  /\ date # chat.selectedDate
  /\ chat' = refreshEvents([chat EXCEPT !.selectedDate = date, !.selections = @ + 1])
  /\ CalendarFrame

\* setViewType(view) for another view, then the effect
setViewType(view) ==
  /\ chat.kind = "calendar" /\ chat.selections < MaxSelections
  /\ view # chat.viewType
  /\ chat' = refreshEvents([chat EXCEPT !.viewType = view, !.selections = @ + 1])
  /\ CalendarFrame

\* toggleCalendarSelection(calendarId), then the effect
toggleCalendarSelection(calendarId) ==
  /\ chat.kind = "calendar" /\ chat.selections < MaxSelections
  /\ chat' = refreshEvents(
       [chat EXCEPT !.selections = @ + 1,
                    !.calendars = [i \in 1..Len(@) |->
                       IF @[i].id = calendarId
                       THEN [@[i] EXCEPT !.selected = ~@]
                       ELSE @[i]]])
  /\ CalendarFrame

\* what call k holds once the getEvents it awaits has answered
allEventsAfter(call) ==
  call.allEvents \o getEvents(Head(call.ids), call.timeMin, call.timeMax)

\* the getEvents that refreshEvents call k awaits answers: the loop goes on to
\* the next calendar, or ends with setEvents(allEvents) and finally
EventsAnswered(k) ==
  /\ chat.kind = "calendar" /\ k \in 1..Len(chat.calls)
  /\ chat' = IF Len(chat.calls[k].ids) = 1
             THEN [chat EXCEPT !.events = allEventsAfter(chat.calls[k]),
                               !.isLoading = FALSE,
                               !.calls = Drop(@, k)]
             ELSE [chat EXCEPT !.calls[k] =
                     [@ EXCEPT !.allEvents = allEventsAfter(chat.calls[k]),
                               !.ids = Tail(@)]]
  /\ CalendarFrame

\* the getEvents that refreshEvents call k awaits throws: catch, finally
EventsFailed(k) ==
  /\ chat.kind = "calendar" /\ k \in 1..Len(chat.calls)
  /\ chat' = [chat EXCEPT !.error = "Failed to load events",
                          !.isLoading = FALSE,
                          !.calls = Drop(@, k)]
  /\ CalendarFrame

NextCalendar ==
  \/ \E date \in CalendarDates : setSelectedDate(date)
  \/ \E view \in ViewTypes : setViewType(view)
  \/ \E i \in 1..Len(CalendarIds) : toggleCalendarSelection(CalendarIds[i])
  \/ \E k \in 1..(MaxSelections + 1) : EventsAnswered(k)
  \/ \E k \in 1..(MaxSelections + 1) : EventsFailed(k)

SpecCalendar == InitCalendar /\ [][NextCalendar]_vars

\* ------------------------------------------------------------------ claims
\* The step in which the store commits the update of the completion request
\* k of session s and the call resolves.
Landed(s, k) ==
  /\ k \in Slots(s)
  /\ reqs[s][k].via = "complete"
  /\ IsRow(store[reqs[s][k].id])
  /\ reqs'[s] = Drop(reqs[s], k)
  /\ ops' = ops

Rotating(row) ==
  IsRow(row) /\ row.rotation /\ row.rotation_members # NullMembers
  /\ Len(row.rotation_members) > 0

\* position after `index` in a rotation of n members
NextPosition(index, n) == IF index = NullInt THEN 0 ELSE (index + 1) % n

\* C1: every single completion of a rotating chore moves the stored
\* current_assignee_index one position on ((index + 1) mod length, 0 from
\* null) and stores the member at that position as assigned_to, counting the
\* client computation and the trigger that run on that one update.
C1_OneStepPerCompletion ==
  [][\A s \in Sessions : \A k \in Slots(s) :
       LET old == store[reqs[s][k].id]
           new == store'[reqs[s][k].id]
       IN  Landed(s, k) /\ Rotating(old)
           => LET pos == NextPosition(old.current_assignee_index, Len(old.rotation_members))
              IN  /\ new.current_assignee_index = pos
                  /\ new.assigned_to = At(old.rotation_members, pos)]_vars

\* C2: in every reachable state a stored chore with rotation enabled has
\* assigned_to = rotation_members[current_assignee_index].
C2_AssigneeDerivedFromIndex ==
  \A id \in ChoreIds :
    Rotating(store[id])
    => store[id].assigned_to = At(store[id].rotation_members, store[id].current_assignee_index)

\* C3: a completion of a rotating chore with at least two distinct members,
\* issued from a local copy equal to the stored row, stores as assigned_to the
\* member at the new rotation position, and that member is not the one who was
\* assigned before the completion.
C3_AssigneeChanges ==
  [][\A s \in Sessions : \A k \in Slots(s) :
       LET old == store[reqs[s][k].id]
           new == store'[reqs[s][k].id]
       IN  /\ Landed(s, k) /\ Rotating(old) /\ Len(old.rotation_members) >= 2
           /\ reqs[s][k].seen = old
           => /\ new.assigned_to = At(new.rotation_members, new.current_assignee_index)
              /\ new.assigned_to # old.assigned_to]_vars


\* the columns a completion is not meant to touch are unchanged
SameDefinition(old, new) ==
  /\ new.frequency = old.frequency
  /\ new.rotation = old.rotation
  /\ new.rotation_members = old.rotation_members

\* C4 as stated: a completion of a chore stored with rotation disabled
\* leaves assigned_to and current_assignee_index as they were and changes
\* only last_completed and next_due.
C4_PlainChoreKeepsAssignee ==
  [][\A s \in Sessions : \A k \in Slots(s) :
       LET old == store[reqs[s][k].id]
           new == store'[reqs[s][k].id]
       IN  Landed(s, k) /\ ~old.rotation
           => /\ new.assigned_to = old.assigned_to
              /\ new.current_assignee_index = old.current_assignee_index
              /\ SameDefinition(old, new)]_vars

\* C4 amended: a completion of a chore stored with rotation disabled, issued
\* from a session whose local copy of the chore also has rotation disabled
\* and agrees with the stored row on assigned_to and current_assignee_index,
\* leaves both as they were and changes only last_completed and next_due.
C4_PlainChoreKeepsAssigneeWhenFresh ==
  [][\A s \in Sessions : \A k \in Slots(s) :
       LET old  == store[reqs[s][k].id]
           new  == store'[reqs[s][k].id]
           seen == reqs[s][k].seen
       IN  /\ Landed(s, k) /\ ~old.rotation
           /\ ~seen.rotation
           /\ seen.assigned_to = old.assigned_to
           /\ seen.current_assignee_index = old.current_assignee_index
           => /\ new.assigned_to = old.assigned_to
              /\ new.current_assignee_index = old.current_assignee_index
              /\ SameDefinition(old, new)
              /\ new.last_completed = reqs[s][k].body.last_completed]_vars

\* a chore with an assignee and without rotation has been completed
C4_Witness ==
  \E id \in ChoreIds :
    /\ IsRow(store[id]) /\ ~store[id].rotation
    /\ store[id].assigned_to = "A"
    /\ store[id].last_completed # NullTime

\* C5: when a completion lands that was issued from a copy read before
\* another session's completion of the same rotating chore landed, at another
\* instant than that one, the stored chore ends two positions past the
\* position both sessions had read, or with assigned_to different from
\* rotation_members[current_assignee_index].
C5_StaleCompletions ==
  [][\A s \in Sessions : \A k \in Slots(s) :
       LET old  == store[reqs[s][k].id]
           new  == store'[reqs[s][k].id]
           seen == reqs[s][k].seen
           n    == Len(seen.rotation_members)
       IN  /\ Landed(s, k) /\ Rotating(seen)
           /\ \E o \in Sessions \ {s} :
                old = pgUpdate(seen, completionUpdates(o, seen, old.last_completed))
           /\ old.last_completed # seen.last_completed
           /\ old.last_completed # reqs[s][k].body.last_completed
           => \/ new.current_assignee_index =
                   NextPosition(NextPosition(seen.current_assignee_index, n), n)
              \/ new.assigned_to # At(new.rotation_members, new.current_assignee_index)]_vars

\* both sessions hold the chore as completed at different instants of one week
\* (so the later one was issued from a copy read before the earlier landed),
\* and the stored rotation of three stands two positions past the start
C5_Witness ==
  \E id \in ChoreIds :
    /\ Rotating(store[id]) /\ Len(store[id].rotation_members) = 3
    /\ store[id].current_assignee_index = 2
    /\ id \in Ids(chores[1]) /\ id \in Ids(chores[2])
    /\ LET t1 == FindChore(chores[1], id).last_completed
           t2 == FindChore(chores[2], id).last_completed
       IN  /\ t1 # NullTime /\ t2 # NullTime /\ t1 # t2
           /\ isThisWeek(1, t1, t2)
           /\ store[id].last_completed \in {t1, t2}

Mutations == {"create", "update", "complete", "delete"}

\* C6: while a chore mutation of a session is in flight the session's list is
\* in its loading state and offers no 'Mark as complete'.
C6_LoadingWhileInFlight ==
  \A s \in Sessions :
    (\E k \in Slots(s) : reqs[s][k].via \in Mutations)
    => isLoading[s] /\ \A id \in ChoreIds : ~CompleteOffered(s, id)

\* C7: a completion invoked at T stores last_completed = T and, on a daily
\* chore, next_due = T + 1 day, on a weekly chore next_due = T + 7 days.
C7_NextDueFromCompletionTime ==
  [][\A s \in Sessions : \A k \in Slots(s) :
       LET old == store[reqs[s][k].id]
           new == store'[reqs[s][k].id]
           T   == reqs[s][k].body.last_completed
       IN  Landed(s, k) /\ old.frequency \in {"daily", "weekly"}
           => /\ new.last_completed = T
              /\ new.next_due = T + (IF old.frequency = "daily" THEN 1 ELSE 7) * TicksPerDay]_vars


\* C8: the next due date of a monthly chore calculated from a date is the
\* same day of the following calendar month at the same time of day, or the
\* last day of that month when it has no such day; it never falls in the
\* month after.
C8_MonthlyStaysInNextMonth ==
  calc.kind = "due" /\ calc.frequency = "monthly" /\ calc.by # "none"
  => LET c   == CivilOf(calc.wall)
         r   == CivilOf(calc.out)
         y2  == IF c.m = 12 THEN c.y + 1 ELSE c.y
         m2  == IF c.m = 12 THEN 1 ELSE c.m + 1
         end == DaysInMonth(y2, m2)
     IN  /\ r.y = y2 /\ r.m = m2
         /\ r.d = (IF c.d <= end THEN c.d ELSE end)
         /\ TimeOfDay(calc.out) = TimeOfDay(calc.wall)

FailedWrite(s, k) ==
  /\ k \in Slots(s)
  /\ reqs[s][k].via \in Mutations
  /\ reqs'[s] = Drop(reqs[s], k)
  /\ \/ ops' = ops + 1
     \/ /\ ops' = ops
        /\ reqs[s][k].via \in {"update", "complete"}
        /\ ~IsRow(store[reqs[s][k].id])

\* C10: neither the step that issues a store write nor the step in which the
\* write fails changes the stored rows or any session's local list; the
\* failure sets the session's error and the call rejects.
C10_FailedWriteChangesNothing ==
  [][\A s \in Sessions :
       /\ Len(reqs'[s]) > Len(reqs[s]) => store' = store /\ chores' = chores
       /\ \A k \in Slots(s) :
            FailedWrite(s, k)
            => /\ store' = store
               /\ chores' = chores
               /\ error'[s] # Null
               /\ settled' = "rejected"]_vars

\* a write on an existing, listed chore has failed
C10_Witness ==
  /\ settled = "rejected"
  /\ \E s \in Sessions :
       /\ error[s] \in {"Failed to update chore", "Failed to delete chore"}
       /\ \E id \in Ids(chores[s]) : IsRow(store[id])

\* C11: a submission of the chore form with an empty or whitespace-only
\* title, or with rotation on and fewer than 2 rotation members, issues no
\* store request and leaves the chores table and every local chores list
\* unchanged; a submission of the to-do form with an empty or whitespace-only
\* title or an unparseable due date issues no to-do request and leaves the
\* todos table and the local to-do list unchanged.
C11_InvalidFormsWriteNothing ==
  [][/\ (reqs' # reqs \/ store' # store \/ chores' # chores) =>
          \A s \in FormSessions, title \in Titles, in \in FormInputs :
            /\ title \in {"", " "} \/ (in.rotation /\ Len(in.rotationMembers) < 2)
            /\ ChoreFormSubmit(s, title, in)
            => reqs' = reqs /\ store' = store /\ chores' = chores
     /\ (todo'.reqs # todo.reqs \/ todo'.rows # todo.rows \/ todo'.list # todo.list) =>
          \A editing \in 0..MaxTodos, title \in Titles, dueDate \in DueInputs :
            /\ title \in {"", " "} \/ dueDate = "soon"
            /\ TodoFormSubmit(editing, title, dueDate)
            => todo'.reqs = todo.reqs /\ todo'.rows = todo.rows /\ todo'.list = todo.list
    ]_vars

\* both forms show validation errors next to a stored chore and a listed to-do
C11_Witness ==
  /\ errors.chore = {"title", "rotation"}
  /\ "dueDate" \in errors.todo
  /\ Len(todo.list) > 0
  /\ \E id \in ChoreIds : IsRow(store[id])

\* the step in which the store commits the form's insert or update k of
\* session s; FormRow is the row it wrote
FormLanded(s, k) ==
  /\ k \in Slots(s)
  /\ reqs[s][k].via \in {"create", "update"}
  /\ reqs[s][k].via = "update" => IsRow(store[reqs[s][k].id])
  /\ reqs'[s] = Drop(reqs[s], k)
  /\ ops' = ops

NoRotationState(row) ==
  row.rotation_members = NullMembers /\ row.current_assignee_index = NullInt

\* C12 as stated: every stored chore with rotation disabled has
\* rotation_members = null and current_assignee_index = null, after creation
\* or edit through the form and after any number of completions.
C12_PlainChoreHasNoRotationState ==
  \A id \in ChoreIds :
    IsRow(store[id]) /\ ~store[id].rotation => NoRotationState(store[id])

\* C12 amended: a chore written by the chore form with rotation disabled has
\* rotation_members = null and current_assignee_index = null, and both stay
\* null under every completion issued from a local copy that has rotation
\* disabled and a null index as well.
C12_PlainChoreKeepsNoRotationState ==
  [][\A s \in Sessions : \A k \in Slots(s) :
       /\ FormLanded(s, k) /\ ~reqs[s][k].body.rotation
          => LET id == IF reqs[s][k].via = "create" THEN nextId ELSE reqs[s][k].id
             IN  ~store'[id].rotation /\ NoRotationState(store'[id])
       /\ LET old  == store[reqs[s][k].id]
              new  == store'[reqs[s][k].id]
              seen == reqs[s][k].seen
          IN  /\ Landed(s, k) /\ ~old.rotation /\ NoRotationState(old)
              /\ ~seen.rotation /\ seen.current_assignee_index = NullInt
              => ~new.rotation /\ NoRotationState(new)]_vars

\* a weekly chore without rotation and without rotation state has been
\* completed
C12_Witness ==
  \E id \in ChoreIds :
    /\ IsRow(store[id]) /\ ~store[id].rotation /\ store[id].frequency = "weekly"
    /\ NoRotationState(store[id])
    /\ store[id].last_completed # NullTime

\* the calendar week counted Monday through Sunday (2024-01-01 is a Monday)
MondayWeekOf(day) == day \div 7

InMondayWeek(s, t, nowT) ==
  MondayWeekOf(DayOf(t + TzOffset(s))) = MondayWeekOf(DayOf(nowT + TzOffset(s)))

Classified == calc.kind = "classify" /\ calc.group # "none"

\* C13: a chore is classified Recently Completed exactly when its
\* last_completed is set and falls within the current calendar week counted
\* Monday through Sunday, whatever its next_due; a chore last completed on the
\* Sunday before the current Monday is not Recently Completed.
C13_RecentlyCompletedIsMondayWeek ==
  Classified =>
    (calc.group = "Recently Completed"
       <=> /\ calc.chore.last_completed # NullTime
           /\ InMondayWeek(calc.s, calc.chore.last_completed, calc.nowT))

\* C14: a chore that is not Recently Completed and has no next_due is
\* classified No Due Date, a class distinct from Upcoming.
C14_NoNextDueIsNoDueDate ==
  (Classified /\ calc.group # "Recently Completed" /\ calc.chore.next_due = NullTime)
    => calc.group = "No Due Date"

SameLocalDay(s, t, nowT) == DayOf(t + TzOffset(s)) = DayOf(nowT + TzOffset(s))

\* C15: for a chore that is not Recently Completed and has a next_due, the
\* group is Overdue exactly when next_due is strictly before now and on another
\* calendar day, Due Today exactly when next_due is on the calendar day of now,
\* and Upcoming otherwise; exactly one of the three.
C15_DueGroups ==
  (Classified /\ calc.group # "Recently Completed" /\ calc.chore.next_due # NullTime) =>
    LET due     == calc.chore.next_due
        sameDay == SameLocalDay(calc.s, due, calc.nowT)
    IN  /\ calc.group \in {"Overdue", "Due Today", "Upcoming"}
        /\ calc.group = "Overdue" <=> (due < calc.nowT /\ ~sameDay)
        /\ calc.group = "Due Today" <=> sameDay
        /\ calc.group = "Upcoming" <=> (due >= calc.nowT /\ ~sameDay)

\* a chore due earlier on the day of now, in the session off the store's zone
C15_Witness ==
  /\ Classified /\ calc.s = 2
  /\ calc.group = "Due Today"
  /\ calc.chore.next_due < calc.nowT
  /\ DayOf(calc.chore.next_due) # DayOf(calc.nowT)

ChoreGroupOrder == <<"Overdue", "Due Today", "Upcoming", "Recently Completed">>

TodoGroupOrder == <<"Overdue", "Today", "Tomorrow", "This Week", "Later", "No Due Date">>

RankIn(order, label) ==
  IF \E i \in 1..Len(order) : order[i] = label
  THEN CHOOSE i \in 1..Len(order) : order[i] = label
  ELSE 0

\* the labels of the rendered groups follow `order`, strictly ascending
InOrder(groups, order) ==
  /\ \A i \in 1..Len(groups) : RankIn(order, groups[i].label) > 0
  /\ \A i, j \in 1..Len(groups) :
       i < j => RankIn(order, groups[i].label) < RankIn(order, groups[j].label)

RECURSIVE SumLen(_, _)
SumLen(groups, field) ==
  IF groups = <<>> THEN 0 ELSE Len(Head(groups)[field]) + SumLen(Tail(groups), field)

\* C16: the rendered chore groups come in the order Overdue, Due Today,
\* Upcoming, Recently Completed and the rendered to-do groups in the order
\* Overdue, Today, Tomorrow, This Week, Later, No Due Date; no rendered group is
\* empty and every listed item is in a rendered group.
C16_GroupOrder ==
  /\ (calc.kind = "chores" /\ calc.done) =>
       /\ InOrder(calc.groups, ChoreGroupOrder)
       /\ \A i \in 1..Len(calc.groups) : Len(calc.groups[i].chores) > 0
       /\ SumLen(calc.groups, "chores") = Len(calc.list)
  /\ (calc.kind = "todos" /\ calc.done) =>
       /\ InOrder(calc.groups, TodoGroupOrder)
       /\ \A i \in 1..Len(calc.groups) : Len(calc.groups[i].todos) > 0
       /\ SumLen(calc.groups, "todos") = Len(filterTodos(calc.list, calc.filter))

\* three chore groups rendered with Due Today left out between them
C16_Witness ==
  /\ calc.kind = "chores" /\ calc.done
  /\ Len(calc.groups) = 3
  /\ calc.groups[1].label = "Overdue"
  /\ calc.groups[2].label = "Upcoming"
  /\ calc.groups[3].label = "Recently Completed"

DueDay(s, t) == DayOf(t.due + TzOffset(s))

\* C17: in the rendered to-do list every pending to-do due on a calendar day
\* before today comes before every to-do due tomorrow or later, under every
\* filter.
C17_OverdueBeforeLater ==
  (calc.kind = "todos" /\ calc.done) =>
    LET today == DayOf(calc.nowT + TzOffset(calc.s))
        late(t)  == t.status = "pending" /\ t.due # NullTime /\ DueDay(calc.s, t) < today
        ahead(t) == t.due # NullTime /\ DueDay(calc.s, t) > today
    IN  \A i, j \in 1..Len(calc.shown) :
          (late(calc.shown[i]) /\ ahead(calc.shown[j])) => i < j

\* shown under the filter "all": a completed to-do due tomorrow, given first,
\* and a pending one due two days ago, given last and rendered first
C17_Witness ==
  /\ calc.kind = "todos" /\ calc.done /\ calc.filter = "all"
  /\ Len(calc.list) = 2 /\ Len(calc.shown) = 2
  /\ calc.list[1].due = addDays(calc.nowT, 1)
  /\ calc.list[2].status = "pending" /\ calc.list[2].due = addDays(calc.nowT, -2)
  /\ calc.shown[1] = calc.list[2]
  /\ calc.shown[2] = calc.list[1]

\* C18: whenever no chore load is in flight, every chore in the local list
\* belongs to the family currently selected; in particular a family switch
\* during a load never ends with the previous family's chores in the list.
\* Stated for the case where no load has failed since the last one started.
C18_ListOfCurrentFamily ==
  (fam.kind = "family" /\ fam.loads = <<>> /\ fam.error = Null) =>
    \A i \in 1..Len(fam.chores) : fam.chores[i].family_id = fam.currentFamily

\* the request toggleTodoStatus(id) has just put in flight
ToggleSent == todo'.reqs[Len(todo'.reqs)]

\* C19: toggleTodoStatus sends an update of the status alone, to pending when
\* the to-do it was called on is completed and to completed otherwise; the
\* store writes that status and no other field; for a pending or completed
\* to-do, toggling the to-do that results writes the original status back.
C19_ToggleWritesPendingOrCompleted ==
  [][/\ \A id \in 1..MaxTodos : TodoToggle(id) =>
          LET t == FindChore(todo.list, id)
          IN  /\ DOMAIN ToggleSent.body = {"status"}
              /\ ToggleSent.body.status \in {"pending", "completed"}
              /\ ToggleSent.body.status = "pending" <=> t.status = "completed"
              /\ t.status \in {"pending", "completed"} =>
                   newStatus([t EXCEPT !.status = ToggleSent.body.status]) = t.status
     /\ \A k \in 1..Len(todo.reqs) : (todo.reqs[k].via = "toggle" /\ TodoStoreAnswer(k)) =>
          LET r   == todo.reqs[k]
              old == FindChore(todo.rows, r.id)
              new == FindChore(todo'.rows, r.id)
          IN  /\ new.status = r.body.status
              /\ new = [old EXCEPT !.status = r.body.status]
              /\ \A id \in Ids(todo.rows) \ {r.id} :
                   FindChore(todo'.rows, id) = FindChore(todo.rows, id)
    ]_vars

\* the second toggle of a to-do the form created as pending: it is listed as
\* completed and the toggle in flight writes pending
C19_Witness ==
  \E k \in 1..Len(todo.reqs) :
    /\ todo.reqs[k].via = "toggle"
    /\ todo.reqs[k].body.status = "pending"
    /\ FindChore(todo.list, todo.reqs[k].id).title = "Buy milk"
    /\ FindChore(todo.list, todo.reqs[k].id).status = "completed"
    /\ FindChore(todo.rows, todo.reqs[k].id).status = "completed"

\* the field is there in the payload
Has(eventDetails, field) == eventDetails # NoDetails /\ eventDetails[field] # Null

\* C20: during a chat turn the list of calendar calls grows only by one create
\* call, and only in the step that handles an extracted command "create" whose
\* payload has a summary, a start and an end; for update, delete, query, no
\* command, or a create payload missing one of the three, no call is made.
C20_CalendarCallOnlyOnCompleteCreate ==
  [][/\ chat'.calls # chat.calls =>
          /\ chat.pc = "extracting"
          /\ chat'.command = "create"
          /\ Has(chat'.eventDetails, "summary")
          /\ Has(chat'.eventDetails, "start")
          /\ Has(chat'.eventDetails, "end")
          /\ Len(chat'.calls) = Len(chat.calls) + 1
          /\ SubSeq(chat'.calls, 1, Len(chat.calls)) = chat.calls
          /\ chat'.calls[Len(chat'.calls)].op = "create"
          /\ chat'.calls[Len(chat'.calls)].summary = chat'.eventDetails.summary
     /\ \A command \in Commands, eventDetails \in EventDetails :
          /\ CommandExtracted(command, eventDetails)
          /\ \/ command # "create"
             \/ ~Has(eventDetails, "summary")
             \/ ~Has(eventDetails, "start")
             \/ ~Has(eventDetails, "end")
          => chat'.calls = chat.calls
    ]_vars

\* a second turn whose command is update with a complete payload, after a
\* first turn that created an event: still one call
C20_Witness ==
  /\ chat.kind = "chat" /\ chat.pc = "responding" /\ chat.turns = 2
  /\ chat.command = "update"
  /\ Has(chat.eventDetails, "summary") /\ Has(chat.eventDetails, "start")
  /\ Has(chat.eventDetails, "end")
  /\ Len(chat.calls) = 1 /\ chat.calls[1].op = "create"

\* C21: the chat turns so far have persisted at most one chat_history row
\* each; every row carries the message of a turn and the response to that same
\* message with the family and the sender; no row holds a response that was not
\* obtained from the assistant.
C21_OnePairedRowPerTurn ==
  chat.kind = "chat" =>
    /\ Len(chat.history) <= chat.turns
    /\ \A i, j \in 1..Len(chat.history) :
         chat.history[i].message = chat.history[j].message => i = j
    /\ \A i \in 1..Len(chat.history) :
         /\ chat.history[i].message \in 1..chat.turns
         /\ chat.history[i].response.to = chat.history[i].message
         /\ chat.history[i].family_id = ChatFamily
         /\ chat.history[i].user_id = ChatUser
         /\ chat.history[i].response.obtained

\* C22: the protected route shows its content only when auth loading has
\* finished and a user is present; when loading has finished and there is no
\* user it resolves to /login.
C22_ContentOnlyForLoadedUser ==
  fam.kind = "auth" =>
    /\ fam.route = "children" => (~fam.isLoading /\ fam.user # Null)
    /\ (~fam.isLoading /\ fam.user = Null) => fam.route = "/login"

\* the session ended while the dashboard was shown: the route is /login
C22_Witness ==
  /\ fam.kind = "auth" /\ fam.pc = "ready"
  /\ fam.session = Null /\ fam.user = Null /\ ~fam.isLoading
  /\ Len(fam.dbMembers) > 0
  /\ fam.pathname = "/dashboard"
  /\ fam.route = "/login"

\* C29: when createNewFamily rejects, neither the family row nor the creator's
\* membership row of that call is stored and the local families and current
\* family are as before the call; when it resolves, both rows are stored.
C29_CreateFamilyAllOrNothing ==
  [][(fam.kind = "auth" /\ fam.op.stage # "none" /\ fam'.op.stage = "none") =>
       /\ fam'.settled = "rejected" =>
            /\ \A i \in 1..Len(fam'.dbFamilies) :
                 fam.op.id # 0 => fam'.dbFamilies[i].id # fam.op.id
            /\ Len(fam'.dbFamilies) = Len(fam.dbFamilies)
            /\ fam'.dbMembers = fam.dbMembers
            /\ fam'.families = fam.families
            /\ fam'.currentFamily = fam.currentFamily
       /\ fam'.settled = "resolved" =>
            /\ \E i \in 1..Len(fam'.dbFamilies) : fam'.dbFamilies[i].id = fam.op.id
            /\ \E i \in 1..Len(fam'.dbMembers) :
                 fam'.dbMembers[i] = MemberRow(fam.op.id, fam.op.user)
    ]_vars

NoDuplicates(members) ==
  \A i, j \in 1..Len(members) : members[i] = members[j] => i = j

InRange(row) ==
  /\ row.rotation_members # NullMembers
  /\ Len(row.rotation_members) >= 2
  /\ NoDuplicates(row.rotation_members)
  /\ row.current_assignee_index # NullInt
  /\ row.current_assignee_index \in 0..(Len(row.rotation_members) - 1)

\* C23 as stated: every stored rotating chore has at least 2 rotation members,
\* no member twice, and an integer current_assignee_index with
\* 0 <= current_assignee_index < Len(rotation_members).
C23_RotationIndexInRange ==
  \A id \in ChoreIds :
    (IsRow(store[id]) /\ store[id].rotation) => InRange(store[id])

\* C23 amended: a chore written by the chore form with rotation on has at
\* least 2 distinct members and an index in range, and a completion keeps that
\* when it carries a last_completed other than the stored one (the trigger
\* recomputes the index) or was issued from a copy with the stored member list
\* and an index in range.
C23_RotationIndexStaysInRange ==
  [][\A s \in Sessions : \A k \in Slots(s) :
       /\ FormLanded(s, k) /\ reqs[s][k].body.rotation
          => LET id == IF reqs[s][k].via = "create" THEN nextId ELSE reqs[s][k].id
             IN  store'[id].rotation /\ InRange(store'[id])
       /\ LET old  == store[reqs[s][k].id]
              new  == store'[reqs[s][k].id]
              seen == reqs[s][k].seen
          IN  /\ Landed(s, k) /\ old.rotation /\ InRange(old)
              /\ \/ reqs[s][k].body.last_completed # old.last_completed
                 \/ /\ seen.rotation /\ InRange(seen)
                    /\ seen.rotation_members = old.rotation_members
              => new.rotation /\ InRange(new)]_vars

\* a rotating chore with three members stored at the last position after a
\* completion
C23_Witness ==
  \E id \in ChoreIds :
    /\ IsRow(store[id]) /\ store[id].rotation
    /\ store[id].last_completed # NullTime
    /\ Len(store[id].rotation_members) = 3
    /\ store[id].current_assignee_index = 2

\* the members stored as assigned_to by the last n completions
LastAssigned(n) == SubSeq(calc.assigned, Len(calc.assigned) - n + 1, Len(calc.assigned))

\* C24: for a rotating chore with n members, among the assigned_to values
\* stored by any n consecutive completions each member occurs exactly once.
C24_EveryMemberWithinACycle ==
  (calc.kind = "completions" /\ Len(calc.assigned) >= Len(calc.chore.rotation_members)) =>
    LET n == Len(calc.chore.rotation_members)
    IN  \A i \in 1..n :
          Cardinality({j \in 1..n : LastAssigned(n)[j] = calc.chore.rotation_members[i]}) = 1

\* C25: completeChore and update_next_due, applied separately to one
\* pre-completion row and completion time, give the same
\* current_assignee_index, the same assigned_to and, the chore being daily or
\* weekly, the same next_due.
C25_TriggerEqualsClient ==
  (calc.kind = "compare" /\ calc.by # 0) =>
    /\ calc.client.current_assignee_index = calc.trigger.current_assignee_index
    /\ calc.client.assigned_to = calc.trigger.assigned_to
    /\ calc.client.next_due = calc.trigger.next_due

C27_EditResetsRotation ==
  [][\A s \in Sessions : \A k \in Slots(s) :
       LET old == store[reqs[s][k].id]
           new == store'[reqs[s][k].id]
       IN  FormLanded(s, k) /\ reqs[s][k].via = "update" /\ reqs[s][k].body.rotation
           => /\ new.current_assignee_index = 0
              /\ new.assigned_to = Null
              /\ new.next_due = old.next_due
              /\ new.last_completed = old.last_completed]_vars

\* a stored rotating chore that has been completed (which left it with an
\* assignee and a due date) stands at position 0 without assignee: an edit
\* was saved after the completion
C27_Witness ==
  \E id \in ChoreIds :
    /\ Rotating(store[id])
    /\ store[id].last_completed # NullTime /\ store[id].next_due # NullTime
    /\ store[id].current_assignee_index = 0
    /\ store[id].assigned_to = Null

\* the to-dos of the rendered group `label` (none when it is not rendered)
InGroup(groups, label) ==
  IF \E i \in 1..Len(groups) : groups[i].label = label
  THEN (CHOOSE g \in {groups[i] : i \in 1..Len(groups)} : g.label = label).todos
  ELSE <<>>

\* how many times x stands in list
Count(list, x) == Cardinality({i \in 1..Len(list) : list[i] = x})

DatedGroups == {"Overdue", "Today", "Tomorrow", "This Week", "Later"}

\* C28: in the rendered to-do list no completed to-do is in Overdue, a
\* completed to-do due on a calendar day before today is in This Week, and
\* every listed to-do with a due date is in exactly one of Overdue, Today,
\* Tomorrow, This Week, Later (as often as it is listed) and not in No Due
\* Date.
C28_CompletedNeverOverdue ==
  (calc.kind = "todos" /\ calc.done) =>
    LET today  == DayOf(calc.nowT + TzOffset(calc.s))
        listed == filterTodos(calc.list, calc.filter)
    IN  /\ \A i \in 1..Len(InGroup(calc.groups, "Overdue")) :
             InGroup(calc.groups, "Overdue")[i].status # "completed"
        /\ \A i \in 1..Len(listed) :
             LET t == listed[i]
             IN  t.due # NullTime =>
                   /\ (t.status = "completed" /\ DueDay(calc.s, t) < today)
                        => Count(InGroup(calc.groups, "This Week"), t) > 0
                   /\ Count(InGroup(calc.groups, "No Due Date"), t) = 0
                   /\ \E l \in DatedGroups :
                        /\ Count(InGroup(calc.groups, l), t) = Count(listed, t)
                        /\ \A m \in DatedGroups \ {l} :
                             Count(InGroup(calc.groups, m), t) = 0

\* rendered under the filter "all": a pending to-do due two days ago in
\* Overdue and a completed one due the same day in This Week
C28_Witness ==
  /\ calc.kind = "todos" /\ calc.done /\ calc.filter = "all"
  /\ \E i, j \in 1..Len(calc.list) :
       /\ calc.list[i].status = "pending" /\ calc.list[i].due = addDays(calc.nowT, -2)
       /\ calc.list[j].status = "completed" /\ calc.list[j].due = addDays(calc.nowT, -2)
       /\ Count(InGroup(calc.groups, "Overdue"), calc.list[i]) = 1
       /\ Count(InGroup(calc.groups, "This Week"), calc.list[j]) = 1

\* the events of the calendars `ids` between timeMin and timeMax, calendar
\* after calendar
RECURSIVE fetchAll(_, _, _)
fetchAll(ids, timeMin, timeMax) ==
  IF ids = <<>> THEN <<>>
  ELSE getEvents(Head(ids), timeMin, timeMax) \o fetchAll(Tail(ids), timeMin, timeMax)

\* the events of the selected calendars in `range`
eventsOfSelection(calendars, range) ==
  fetchAll(selectedCalendarIds(calendars), range.timeMin, range.timeMax)

\* C30: whenever no refreshEvents call is in flight, the calendar context's
\* events are those of the selected calendars in the range of the selected
\* date and view type; a slower answer to an earlier selection never replaces
\* the result of a later one.  Stated for the case where no call has failed
\* since the last one started.
C30_EventsOfLatestSelection ==
  (chat.kind = "calendar" /\ chat.calls = <<>> /\ chat.error = Null) =>
    chat.events = eventsOfSelection(chat.calendars,
                                    getTimeRangeForView(chat.selectedDate, chat.viewType))

====
